---- MODULE Spec2Model ----
(***************************************************************************)
(* ShortLang: the single-pass bytecode compiler (VM::compile_expr) and the *)
(* stack VM (VM::run / VM::run_byte) of src/src/vm/vm.rs, over the Value   *)
(* domain of src/src/vm/value.rs.                                          *)
(*                                                                         *)
(* Indices are the source's: pc, jump targets, constant indices, slot ids  *)
(* and scope indices are 0-based naturals; the sequences that hold the     *)
(* vectors are TLA+ sequences, read at index + 1.                          *)
(***************************************************************************)
EXTENDS Integers, Sequences, FiniteSets, TLC

VARIABLES
    exprs,          \* VM.exprs: the top-level expressions handed to VM::new
    expr_idx,       \* position of VM::compile's loop over exprs
    status,         \* "compile" | "run" | "halted" | "error" | "panic"
    overflow_checks,\* build profile: TRUE = usize arithmetic panics on overflow
    pc,             \* VM.pc
    stack,          \* VM.stack: pointers
    variables_id,   \* VM.variables_id: name -> slot id
    variables,      \* VM.variables: one slot map (slot id -> pointer or None) per scope
    constants,      \* VM.constants
    var_id_count,   \* VM.var_id_count
    instructions,   \* VM.instructions (opcode and operands; spans are left out)
    iteration,      \* VM.iteration
    functions,      \* VM.functions: name -> FunctionData
    call_stack,     \* VM.call_stack: frames {pc_before}
    memory,         \* the heap registry: cells (pointer -> value, mark), next pointer
    output,         \* what has been written to stdout, one entry per Print/Println
    stdin,          \* the lines still to be read from stdin
    diagnostic,     \* the message of the reported error ("" while none is reported)
    call_depth      \* observation: per open call, the operand stack depth below its arguments

vars == <<exprs, expr_idx, status, overflow_checks, pc, stack, variables_id,
          variables, constants, var_id_count, instructions, iteration,
          functions, call_stack, memory, output, stdin, diagnostic,
          call_depth>>

-----------------------------------------------------------------------------
(* Bounds of the model. *)

\* GC_TRIGGER is 1 << GcTriggerShift; the source's shift is 20.
GcTriggerShift == 2

\* The run is cut after this many dispatched instructions.
MaxIteration == 60

-----------------------------------------------------------------------------
(* Value (value.rs): one record shape for every variant, so that any two   *)
(* values can be compared.  t is get_type(); i the number of Int, Float    *)
(* (the integral floats only) and Bool (0/1); s the text; a the elements.  *)

Nil == [t |-> "nil", i |-> 0, s |-> "", a |-> <<>>]
IntV(n) == [t |-> "int", i |-> n, s |-> "", a |-> <<>>]
FloatV(n) == [t |-> "float", i |-> n, s |-> "", a |-> <<>>]
StrV(x) == [t |-> "str", i |-> 0, s |-> x, a |-> <<>>]
BoolV(b) == [t |-> "bool", i |-> IF b THEN 1 ELSE 0, s |-> "", a |-> <<>>]
ArrayV(xs) == [t |-> "array", i |-> 0, s |-> "", a |-> xs]
\* Option<Value>::None, the result of a Value operation on a type mismatch
NoValue == [t |-> "none", i |-> 0, s |-> "", a |-> <<>>]

get_type(v) == v.t

\* a faulty bool_eval: the empty array is false
bool_eval_empty_array_false(v) ==
    CASE v.t = "int" -> v.i # 0
      [] v.t = "bool" -> v.i # 0
      [] v.t = "nil" -> FALSE
      [] v.t = "float" -> v.i # 0
      [] v.t = "str" -> v.s # ""
      [] v.t = "array" -> v.a # <<>>
      [] OTHER -> TRUE

bool_eval(v) ==
    CASE v.t = "int" -> v.i # 0
      [] v.t = "bool" -> v.i # 0
      [] v.t = "nil" -> FALSE
      [] v.t = "float" -> v.i # 0
      [] v.t = "str" -> v.s # ""
      [] OTHER -> TRUE

\* a faulty is_zero: Float 0.0 is not zero
is_zero_int_only(v) == v.t = "int" /\ v.i = 0

is_zero(v) == v.t \in {"int", "float"} /\ v.i = 0

IsNum(v) == v.t \in {"int", "float"}
\* the variant of an arithmetic result: Int only when both operands are Int
NumV(a, b, n) == IF a.t = "int" /\ b.t = "int" THEN IntV(n) ELSE FloatV(n)

RECURSIVE JoinDisplay(_)
RECURSIVE Display(_)
\* impl Display for Value
Display(v) ==
    CASE v.t = "int" -> ToString(v.i)
      [] v.t = "float" -> ToString(v.i) \o ".0"
      [] v.t = "bool" -> IF v.i = 1 THEN "true" ELSE "false"
      [] v.t = "str" -> v.s
      [] v.t = "array" -> "[" \o JoinDisplay(v.a) \o "]"
      [] OTHER -> "nil"
JoinDisplay(xs) ==
    IF xs = <<>> THEN ""
    ELSE IF Len(xs) = 1 THEN Display(xs[1])
    ELSE Display(xs[1]) \o ", " \o JoinDisplay(Tail(xs))

binary_add(a, b) ==
    CASE IsNum(a) /\ IsNum(b) -> NumV(a, b, a.i + b.i)
      [] a.t = "str" /\ b.t = "str" -> StrV(a.s \o b.s)
      [] a.t = "str" /\ IsNum(b) -> StrV(a.s \o Display(b))
      [] IsNum(a) /\ b.t = "str" -> StrV(Display(a) \o b.s)
      [] a.t = "array" /\ b.t = "array" -> ArrayV(a.a \o b.a)
      [] a.t = "array" -> ArrayV(Append(a.a, b))
      [] OTHER -> NoValue

binary_sub(a, b) ==
    IF IsNum(a) /\ IsNum(b) THEN NumV(a, b, a.i - b.i) ELSE NoValue

RECURSIVE Repeat(_, _)
\* str::repeat
Repeat(x, n) == IF n = 0 THEN "" ELSE x \o Repeat(x, n - 1)

\* a panic inside a Value operation (an unwrap of None)
PanicValue == [t |-> "panic", i |-> 0, s |-> "", a |-> <<>>]

binary_mul(a, b) ==
    CASE IsNum(a) /\ IsNum(b) -> NumV(a, b, a.i * b.i)
      [] a.t = "str" /\ b.t = "int" ->
            IF b.i >= 0 THEN StrV(Repeat(a.s, b.i)) ELSE PanicValue
      [] a.t = "int" /\ b.t = "str" ->
            IF a.i >= 0 THEN StrV(Repeat(b.s, a.i)) ELSE PanicValue
      [] OTHER -> NoValue

\* truncating division, as rug's Integer division (the divisor is not zero)
TruncDiv(x, y) ==
    LET ax == IF x < 0 THEN -x ELSE x
        ay == IF y < 0 THEN -y ELSE y
        q == ax \div ay
    IN IF (x < 0) = (y < 0) THEN q ELSE -q

\* the quotient of two integral floats is modelled when it is integral
binary_div(a, b) ==
    IF IsNum(a) /\ IsNum(b) /\ b.i # 0 THEN NumV(a, b, TruncDiv(a.i, b.i))
    ELSE NoValue

\* the remainder of truncating division (the sign of the dividend); rug
\* panics on an Int remainder by zero.  A Float remainder by zero (NaN) is
\* outside the model.
binary_mod(a, b) ==
    CASE a.t = "int" /\ b.t = "int" /\ b.i = 0 -> PanicValue
      [] IsNum(a) /\ IsNum(b) /\ b.i # 0 -> NumV(a, b, a.i - b.i * TruncDiv(a.i, b.i))
      [] ~(IsNum(a) /\ IsNum(b)) -> NoValue

RECURSIVE Xor(_, _)
\* bitwise xor of two naturals
Xor(x, y) ==
    IF x = 0 THEN y
    ELSE IF y = 0 THEN x
    ELSE ((x + y) % 2) + 2 * Xor(x \div 2, y \div 2)

\* the xor of negative integers is outside the model
binary_bitwise_xor(a, b) ==
    CASE a.t = "int" /\ b.t = "int" /\ a.i >= 0 /\ b.i >= 0 -> IntV(Xor(a.i, b.i))
      [] ~(a.t = "int" /\ b.t = "int") -> NoValue

\* always a Float; a negative exponent is outside the model
binary_pow(a, b) ==
    CASE IsNum(a) /\ IsNum(b) /\ b.i >= 0 -> FloatV(a.i ^ b.i)
      [] ~(IsNum(a) /\ IsNum(b)) -> NoValue

\* The ordering of two strings is not modelled: no program of the model
\* compares strings by order.
less_than(a, b) ==
    CASE IsNum(a) /\ IsNum(b) -> BoolV(a.i < b.i)
      [] a.t = "array" /\ b.t = "array" -> BoolV(Len(a.a) < Len(b.a))
      [] OTHER -> NoValue

greater_than(a, b) ==
    CASE IsNum(a) /\ IsNum(b) -> BoolV(a.i > b.i)
      [] a.t = "array" /\ b.t = "array" -> BoolV(Len(a.a) > Len(b.a))
      [] OTHER -> NoValue

less_than_or_equal(a, b) ==
    CASE IsNum(a) /\ IsNum(b) -> BoolV(a.i <= b.i)
      [] a.t = "array" /\ b.t = "array" -> BoolV(Len(a.a) <= Len(b.a))
      [] OTHER -> NoValue

greater_than_or_equal(a, b) ==
    CASE IsNum(a) /\ IsNum(b) -> BoolV(a.i >= b.i)
      [] a.t = "array" /\ b.t = "array" -> BoolV(Len(a.a) >= Len(b.a))
      [] OTHER -> NoValue

equal_to(a, b) ==
    CASE IsNum(a) /\ IsNum(b) -> BoolV(a.i = b.i)
      [] a.t = b.t -> BoolV(a = b)
      [] OTHER -> BoolV(FALSE)

not_equal_to(a, b) == BoolV(equal_to(a, b).i = 0)

and(a, b) == BoolV(bool_eval(a) = bool_eval(b))

or(a, b) == BoolV(bool_eval(a) \/ bool_eval(b))

-----------------------------------------------------------------------------
(* The heap registry (vm/memory.rs: alloc_new_value, mark, sweep).  A      *)
(* pointer is a positive number, never handed out twice; None is NoPtr.    *)

NoPtr == 0

EmptyMap == <<>>

alloc_new_value(m, v) ==
    [cells |-> (m.next :> [val |-> v, mark |-> FALSE]) @@ m.cells,
     next |-> m.next + 1]

\* the pointer alloc_new_value(m, v) returns
NewPtr(m) == m.next

mark(m, p) ==
    IF p \in DOMAIN m.cells
    THEN [m EXCEPT !.cells[p].mark = TRUE]
    ELSE m

sweep(m) ==
    LET live == {p \in DOMAIN m.cells : m.cells[p].mark}
    IN [m EXCEPT !.cells = [p \in live |-> [val |-> m.cells[p].val, mark |-> FALSE]]]

Registered(m, p) == p \in DOMAIN m.cells

-----------------------------------------------------------------------------
(* The AST (parser::ExprKind), one constructor per kind. *)

EInt(n) == [k |-> "Int", val |-> IntV(n)]
EFloat(n) == [k |-> "Float", val |-> FloatV(n)]
EString(x) == [k |-> "String", val |-> StrV(x)]
EBool(b) == [k |-> "Bool", val |-> BoolV(b)]
ENil == [k |-> "Nil", val |-> Nil]
EIdent(x) == [k |-> "Ident", name |-> x]
ESet(x, e) == [k |-> "Set", name |-> x, value |-> e]
EEqStmt(x, o, e) == [k |-> "EqStmt", name |-> x, op |-> o, value |-> e]
EBinary(l, o, r) == [k |-> "Binary", lhs |-> l, op |-> o, rhs |-> r]
EIndex(arr, idx) == [k |-> "Index", array |-> arr, index |-> idx]
EArray(es) == [k |-> "Array", elems |-> es]
EPostfix(e, o) == [k |-> "Postfix", expr |-> e, op |-> o]
ETernary(c, t, e) == [k |-> "Ternary", cond |-> c, then_block |-> t, else_block |-> e]
EWhile(c, b) == [k |-> "While", cond |-> c, body |-> b]
EReturn(e) == [k |-> "Return", value |-> e]
EMultilineFunction(f, ps, b) == [k |-> "MultilineFunction", name |-> f, params |-> ps, body |-> b]
EInlineFunction(f, ps, e) == [k |-> "InlineFunction", name |-> f, params |-> ps, body |-> e]
ECall(f, as) == [k |-> "Call", name |-> f, args |-> as]

Literals == {"Int", "Float", "String", "Bool", "Nil"}

-----------------------------------------------------------------------------
(* The compiler.  A compiler state c holds the VM fields compile_expr      *)
(* writes: instructions, constants, variables_id, var_id_count, variables, *)
(* functions, stack, memory, and status ("compile", or "error"/"panic"     *)
(* once the process has ended).                                            *)

Instr(o, as) == [op |-> o, args |-> as]

Emit(c, o, as) == [c EXCEPT !.instructions = Append(@, Instr(o, as))]

\* VM::add_constant: the new length of the pool
add_constant(c, v) == [c EXCEPT !.constants = Append(@, v)]

\* VM::push_data
push_data(c, v) ==
    LET c1 == add_constant(c, v)
    IN Emit(c1, "LoadConst", <<Len(c1.constants) - 1>>)

\* a faulty compile-time report: the diagnostic is printed and compile_expr
\* goes on
CompileError_returns(c) == c

\* VM::runtime_error at compile time: the diagnostic is printed and the
\* process exits
CompileError(c) == [c EXCEPT !.status = "error"]

\* self.stack.push(allocate(Value::Nil)) inside compile_expr
PushNil(c) ==
    [c EXCEPT !.stack = Append(@, NewPtr(c.memory)),
              !.memory = alloc_new_value(@, Nil)]

\* the opcode of a BinaryOp in a Binary expression
BinaryOpcode(o) ==
    CASE o = "Add" -> "Add" [] o = "Mul" -> "Mul" [] o = "Mod" -> "Mod"
      [] o = "BinaryPow" -> "BinaryPow" [] o = "Pow" -> "Pow"
      [] o = "Div" -> "Div" [] o = "Sub" -> "Sub" [] o = "Less" -> "Lt"
      [] o = "Greater" -> "Gt" [] o = "LessEq" -> "Le"
      [] o = "GreaterEq" -> "Ge" [] o = "NotEq" -> "Neq" [] o = "Eq" -> "Eq"
      [] o = "And" -> "And" [] o = "Or" -> "Or"

\* the opcode of a BinaryOp in an EqStmt
EqStmtOpcode(o) ==
    CASE o = "AddEq" -> "Add" [] o = "SubEq" -> "Sub"
      [] o = "MulEq" -> "Mul" [] o = "DivEq" -> "Div"

\* the built-in callees and their opcodes
Builtins == {"$", "$$", "input", "to_i", "to_f", "len", "type"}
BuiltinOpcode(f) ==
    CASE f = "$" -> "Println" [] f = "$$" -> "Print" [] f = "input" -> "Input"
      [] f = "to_i" -> "ToInt" [] f = "to_f" -> "ToFloat" [] f = "len" -> "Len"
      [] f = "type" -> "TypeOf"

\* the parameter loop of a function definition: one fresh slot per
\* parameter, recorded in variables_id and, unbound, in the new scope
RECURSIVE DeclareParams(_, _, _)
DeclareParams(c, ps, acc) ==
    IF ps = <<>> THEN [c |-> c, fn_params |-> acc.fn_params, scope |-> acc.scope]
    ELSE LET id == c.var_id_count
             c1 == [c EXCEPT !.variables_id = (Head(ps) :> id) @@ @,
                             !.var_id_count = @ + 1]
         IN DeclareParams(c1, Tail(ps),
                [fn_params |-> Append(acc.fn_params, [name |-> Head(ps), id |-> id]),
                 scope |-> (id :> NoPtr) @@ acc.scope])

RECURSIVE compile_expr(_, _)
RECURSIVE CompileAll(_, _)

\* for expr in ...: self.compile_expr(expr)
CompileAll(c, es) ==
    IF es = <<>> \/ c.status # "compile" THEN c
    ELSE CompileAll(compile_expr(c, Head(es)), Tail(es))

\* a faulty literal: the operand is the new length of the pool, not the
\* index of the constant
CompileLiteral_length(c, e) ==
    LET c1 == add_constant(c, e.val)
    IN Emit(c1, "LoadConst", <<Len(c1.constants)>>)

CompileLiteral(c, e) ==
    LET c1 == add_constant(c, e.val)
    IN Emit(c1, "LoadConst", <<Len(c1.constants) - 1>>)

CompilePostfix(c, e) ==
    IF e.op = "Factorial"
    THEN LET c1 == compile_expr(c, e.expr)
         IN IF c1.status # "compile" THEN c1 ELSE Emit(c1, "Factorial", <<>>)
    ELSE IF e.expr.k # "Ident" THEN CompileError(c)
    ELSE Emit(push_data(c, StrV(e.expr.name)),
              IF e.op = "Increase" THEN "Inc" ELSE "Dec", <<>>)

CompileEqStmt(c, e) ==
    IF e.name \notin DOMAIN c.variables_id THEN CompileError(c)
    ELSE LET id == c.variables_id[e.name]
             c1 == Emit(c, "GetVar", <<id>>)
             c2 == compile_expr(c1, e.value)
         IN IF c2.status # "compile" THEN c2
            ELSE Emit(Emit(c2, EqStmtOpcode(e.op), <<>>), "Replace", <<id>>)

CompileIdent(c, e) ==
    IF e.name \notin DOMAIN c.variables_id THEN CompileError(c)
    ELSE Emit(c, "GetVar", <<c.variables_id[e.name]>>)

CompileIndex(c, e) ==
    LET c1 == CompileAll(c, <<e.array, e.index>>)
    IN IF c1.status # "compile" THEN c1 ELSE Emit(c1, "Index", <<>>)

\* a faulty Set: the alias is registered without the parameters of the
\* function it aliases
CompileSet_bare_alias(c, e) ==
    IF e.value.k = "Ident"
    THEN IF e.value.name \in DOMAIN c.functions
         THEN [c EXCEPT !.functions =
                  (e.name :> [c.functions[e.value.name] EXCEPT !.parameters = <<>>]) @@ @]
         ELSE c
    ELSE IF e.name \notin DOMAIN c.variables_id
    THEN LET c1 == [c EXCEPT !.variables_id = (e.name :> c.var_id_count) @@ @]
             c2 == Emit(c1, "MakeVar", <<>>)
             c3 == compile_expr(c2, e.value)
         IN IF c3.status # "compile" THEN c3
            ELSE [Emit(c3, "Replace", <<c3.var_id_count>>)
                    EXCEPT !.var_id_count = @ + 1]
    ELSE LET c1 == compile_expr(c, e.value)
         IN IF c1.status # "compile" THEN c1
            ELSE Emit(c1, "Replace", <<c1.variables_id[e.name]>>)

CompileSet(c, e) ==
    IF e.value.k = "Ident"
    THEN \* special case for functions; the return is taken for every Ident
         IF e.value.name \in DOMAIN c.functions
         THEN [c EXCEPT !.functions = (e.name :> c.functions[e.value.name]) @@ @]
         ELSE c
    ELSE IF e.name \notin DOMAIN c.variables_id
    THEN LET c1 == [c EXCEPT !.variables_id = (e.name :> c.var_id_count) @@ @]
             c2 == Emit(c1, "MakeVar", <<>>)
             c3 == compile_expr(c2, e.value)
         IN IF c3.status # "compile" THEN c3
            ELSE [Emit(c3, "Replace", <<c3.var_id_count>>)
                    EXCEPT !.var_id_count = @ + 1]
    ELSE LET c1 == compile_expr(c, e.value)
         IN IF c1.status # "compile" THEN c1
            ELSE Emit(c1, "Replace", <<c1.variables_id[e.name]>>)

CompileArray(c, e) ==
    LET c1 == CompileAll(c, e.elems)
    IN IF c1.status # "compile" THEN c1 ELSE Emit(c1, "Array", <<Len(e.elems)>>)

CompileBinary(c, e) ==
    LET c1 == CompileAll(c, <<e.lhs, e.rhs>>)
    IN IF c1.status # "compile" THEN c1 ELSE Emit(c1, BinaryOpcode(e.op), <<>>)

\* the value of `returns` a multi-line function is registered with
BodyReturns(body) == \E i \in 1..Len(body) : body[i].k = "Return"

CompileMultilineFunction(c, e) ==
    LET d == DeclareParams(c, e.params, [fn_params |-> <<>>, scope |-> EmptyMap])
        scope_idx == Len(d.c.variables)
        c1 == [d.c EXCEPT !.variables = Append(@, d.scope)]
        c2 == Emit(push_data(c1, StrV(e.name)), "Function", <<>>)
        body_start == Len(c2.instructions)
        c3 == CompileAll(c2, e.body)
        c4 == Emit(c3, "Ret", <<>>)
        body_end == Len(c4.instructions)
    IN IF c3.status # "compile" THEN c3
       ELSE [c4 EXCEPT !.functions =
                (e.name :> [name |-> e.name,
                            parameters |-> d.fn_params,
                            instruction_range |-> [start |-> body_start, end |-> body_end],
                            scope_idx |-> scope_idx,
                            returns |-> BodyReturns(e.body)]) @@ @]

CompileInlineFunction(c, e) ==
    LET d == DeclareParams(c, e.params, [fn_params |-> <<>>, scope |-> EmptyMap])
        scope_idx == Len(d.c.variables)
        c1 == [d.c EXCEPT !.variables = Append(@, d.scope)]
        c2 == Emit(push_data(c1, StrV(e.name)), "Function", <<>>)
        body_start == Len(c2.instructions)
        c3 == compile_expr(c2, EReturn(e.body))
        body_end == Len(c3.instructions)
    IN IF c3.status # "compile" THEN c3
       ELSE [c3 EXCEPT !.functions =
                (e.name :> [name |-> e.name,
                            parameters |-> d.fn_params,
                            instruction_range |-> [start |-> body_start, end |-> body_end],
                            scope_idx |-> scope_idx,
                            returns |-> FALSE]) @@ @]

CompileReturn(c, e) ==
    LET c1 == compile_expr(c, e.value)
    IN IF c1.status # "compile" THEN c1 ELSE Emit(c1, "Ret", <<>>)

\* a faulty Call: the callee name is pushed before the arguments
CompileCall_name_first(c, e) ==
    IF e.name \in Builtins
    THEN LET c1 == IF e.args = <<>> THEN PushNil(c) ELSE compile_expr(c, e.args[1])
         IN IF c1.status # "compile" THEN c1
            ELSE Emit(c1, BuiltinOpcode(e.name), <<>>)
    ELSE LET c1 == CompileAll(push_data(c, StrV(e.name)), e.args)
         IN IF c1.status # "compile" THEN c1
            ELSE PushNil(Emit(c1, "FnCall", <<>>))

CompileCall(c, e) ==
    IF e.name \in Builtins
    THEN \* for_each_arg!(args, 1, ...): the first argument, or a Nil pushed now
         LET c1 == IF e.args = <<>> THEN PushNil(c) ELSE compile_expr(c, e.args[1])
         IN IF c1.status # "compile" THEN c1
            ELSE Emit(c1, BuiltinOpcode(e.name), <<>>)
    ELSE LET c1 == CompileAll(c, e.args)
         IN IF c1.status # "compile" THEN c1
            ELSE PushNil(Emit(push_data(c1, StrV(e.name)), "FnCall", <<>>))

CompileTernary(c, e) ==
    LET c1 == compile_expr(c, e.cond)
        ternary_instr_ptr == Len(c1.instructions)
        c2 == Emit(c1, "TernaryStart", <<>>)
        c3 == CompileAll(c2, e.then_block)
        jump_instr_ptr == Len(c3.instructions)
        c4 == Emit(c3, "Jmp", <<>>)
        ternary_else_start == Len(c4.instructions)
        c5 == CompileAll(c4, e.else_block)
        ternary_end == Len(c5.instructions)
    IN IF c1.status # "compile" THEN c1
       ELSE IF c3.status # "compile" THEN c3
       ELSE IF c5.status # "compile" THEN c5
       ELSE [c5 EXCEPT
               !.instructions[jump_instr_ptr + 1].args = Append(@, ternary_end),
               !.instructions[ternary_instr_ptr + 1].args = Append(@, ternary_else_start)]

CompileWhile(c, e) ==
    LET body_start == Len(c.instructions)
        c1 == compile_expr(c, e.cond)
        while_instr_ptr == Len(c1.instructions)
        c2 == Emit(c1, "While", <<>>)
        c3 == CompileAll(c2, e.body)
        c4 == Emit(c3, "Jmp", <<body_start>>)
        body_end == Len(c4.instructions)
    IN IF c1.status # "compile" THEN c1
       ELSE IF c3.status # "compile" THEN c3
       ELSE [c4 EXCEPT !.instructions[while_instr_ptr + 1].args = Append(@, body_end)]

\* VM::compile_expr
compile_expr(c, e) ==
    IF c.status # "compile" THEN c
    ELSE CASE e.k \in Literals -> CompileLiteral(c, e)
           [] e.k = "Postfix" -> CompilePostfix(c, e)
           [] e.k = "EqStmt" -> CompileEqStmt(c, e)
           [] e.k = "Ident" -> CompileIdent(c, e)
           [] e.k = "Index" -> CompileIndex(c, e)
           [] e.k = "Set" -> CompileSet(c, e)
           [] e.k = "Array" -> CompileArray(c, e)
           [] e.k = "Binary" -> CompileBinary(c, e)
           [] e.k = "MultilineFunction" -> CompileMultilineFunction(c, e)
           [] e.k = "InlineFunction" -> CompileInlineFunction(c, e)
           [] e.k = "Return" -> CompileReturn(c, e)
           [] e.k = "Call" -> CompileCall(c, e)
           [] e.k = "Ternary" -> CompileTernary(c, e)
           [] e.k = "While" -> CompileWhile(c, e)
           [] OTHER -> c

-----------------------------------------------------------------------------
(* The run-time state an instruction handler reads and writes, as a        *)
(* record r: pc, stack, variables, call_stack, memory, output, stdin,      *)
(* status, diagnostic.  A handler returns the record after the match arm   *)
(* of run_byte; status "error" is a reported runtime error (the process    *)
(* exits with code 1), "panic" a Rust panic.                               *)

GC_TRIGGER == 2 ^ GcTriggerShift

Top(s) == s[Len(s)]
Pop(s) == SubSeq(s, 1, Len(s) - 1)

\* the value a pointer refers to
Deref(m, p) == m.cells[p].val

\* a faulty runtime_error: the process aborts without the diagnostic
runtime_error_abort(r, msg) == [r EXCEPT !.status = "panic"]

\* a faulty runtime_error: the diagnostic is printed and the call returns
runtime_error_returns(r, msg) == [r EXCEPT !.diagnostic = msg]

\* VM::runtime_error: prints the diagnostic and exits the process
runtime_error(r, msg) == [r EXCEPT !.status = "error", !.diagnostic = msg]

Panic(r) == [r EXCEPT !.status = "panic"]

\* allocate(v) followed by self.stack.push
PushNew(r, v) ==
    [r EXCEPT !.stack = Append(@, NewPtr(r.memory)),
              !.memory = alloc_new_value(@, v)]

\* an allocate(Value::Nil) whose pointer is dropped: the argument of an
\* unwrap_or is evaluated whether or not it is used
AllocUnused(r) == [r EXCEPT !.memory = alloc_new_value(@, Nil)]

RECURSIVE MarkSeq(_, _)
MarkSeq(m, ps) == IF ps = <<>> THEN m ELSE MarkSeq(mark(m, Head(ps)), Tail(ps))

RECURSIVE MarkSet(_, _)
MarkSet(m, S) ==
    IF S = {} THEN m
    ELSE LET p == CHOOSE q \in S : TRUE IN MarkSet(mark(m, p), S \ {p})

\* the bound pointers of every scope
BoundPtrs(vs) ==
    UNION {{vs[i][id] : id \in {x \in DOMAIN vs[i] : vs[i][x] # NoPtr}} : i \in 1..Len(vs)}

\* a faulty collection: the allocator hands out the addresses of live
\* entries again
gc_recollect_rewind(m, stk, vs) ==
    [sweep(MarkSet(MarkSeq(m, stk), BoundPtrs(vs))) EXCEPT !.next = 1]

\* a faulty collection: only the operand stack is traced
gc_recollect_stack_only(m, stk, vs) == sweep(MarkSeq(m, stk))

\* VM::gc_recollect
gc_recollect(m, stk, vs) == sweep(MarkSet(MarkSeq(m, stk), BoundPtrs(vs)))

\* the scope get_var stops at: the highest index holding the slot, 0 if none
RECURSIVE ScopeOf(_, _, _)
ScopeOf(vs, id, scope_index) ==
    IF scope_index = 0 THEN 0
    ELSE IF id \in DOMAIN vs[scope_index] THEN scope_index
    ELSE ScopeOf(vs, id, scope_index - 1)

\* VM::get_var: "None" when no scope holds the slot, "panic" when the first
\* scope that holds it holds it unbound (v.unwrap()), else the pointer
get_var(vs, id) ==
    LET sc == ScopeOf(vs, id, Len(vs))
    IN IF sc = 0 THEN [res |-> "None", ptr |-> NoPtr]
       ELSE IF vs[sc][id] = NoPtr THEN [res |-> "panic", ptr |-> NoPtr]
       ELSE [res |-> "Some", ptr |-> vs[sc][id]]

\* a faulty jump: pc is set to the target itself, and the increment that
\* ends run_byte lands one instruction past it
JumpTo_direct(r, target) == [r EXCEPT !.pc = target]

\* self.pc = target - 1 in usize, followed by the self.pc += 1 that ends
\* run_byte: with overflow checks 0 - 1 panics, without them it wraps and
\* the increment wraps back
JumpTo(r, target) ==
    IF target = 0 /\ overflow_checks THEN Panic(r) ELSE [r EXCEPT !.pc = target - 1]

\* a faulty Halt: run returns without collecting
OpHalt_no_collect(r) == [r EXCEPT !.status = "halted"]

OpHalt(r) ==
    [r EXCEPT !.memory = gc_recollect(gc_recollect(@, r.stack, r.variables),
                                      r.stack, r.variables),
              !.status = "halted"]

OpTypeOf(r) ==
    IF r.stack = <<>> THEN Panic(r)
    ELSE PushNew([r EXCEPT !.stack = Pop(@)],
                 StrV(get_type(Deref(r.memory, Top(r.stack)))))

OpMakeVar(r) ==
    [r EXCEPT !.variables[Len(r.variables)] = (var_id_count :> NoPtr) @@ @]

OpReplace(r, args) ==
    LET r1 == AllocUnused(r)
        value == IF r.stack = <<>> THEN NewPtr(r.memory) ELSE Top(r.stack)
    IN [r1 EXCEPT !.stack = IF r.stack = <<>> THEN <<>> ELSE Pop(r.stack),
                  !.variables[Len(r.variables)] = (args[1] :> value) @@ @]

OpGetVar(r, args) ==
    LET v == get_var(r.variables, args[1])
    IN CASE v.res = "panic" -> Panic(r)
         [] v.res = "None" -> runtime_error(r, "Variable not found")
         [] OTHER -> [AllocUnused(r) EXCEPT !.stack = Append(@, v.ptr)]

\* a faulty LoadConst: the pointer pushed is the address of the pool's own
\* value (kept here under the negative address of the index), not of a copy
OpLoadConst_pool_pointer(r, args) ==
    IF args[1] < Len(constants)
    THEN LET p == 0 - (args[1] + 1)
         IN [r EXCEPT !.stack = Append(@, p),
                      !.memory.cells =
                          IF p \in DOMAIN @ THEN @
                          ELSE (p :> [val |-> constants[args[1] + 1], mark |-> FALSE]) @@ @]
    ELSE runtime_error(r, "Stack overflow")

\* a faulty LoadConst: the argument is read as a one-based index
OpLoadConst_one_based(r, args) ==
    IF args[1] >= 1 /\ args[1] <= Len(constants)
    THEN PushNew(r, constants[args[1]])
    ELSE runtime_error(r, "Stack overflow")

OpLoadConst(r, args) ==
    IF args[1] < Len(constants)
    THEN PushNew(r, constants[args[1] + 1])
    ELSE runtime_error(r, "Stack overflow")

\* the name popped by Function and FnCall: unwrap_or(allocate(Nil)).as_str()
PoppedName(r) ==
    IF r.stack = <<>> THEN Nil ELSE Deref(r.memory, Top(r.stack))

PopOrNil(r) ==
    [AllocUnused(r) EXCEPT !.stack = IF r.stack = <<>> THEN <<>> ELSE Pop(r.stack)]

\* a faulty Function: the name is popped but the body is not skipped
OpFunction_fallthrough(r) ==
    IF PoppedName(r).t # "str" \/ PoppedName(r).s \notin DOMAIN functions THEN Panic(r)
    ELSE PopOrNil(r)

OpFunction(r) ==
    LET fn_name == PoppedName(r)
        r1 == PopOrNil(r)
    IN IF fn_name.t # "str" \/ fn_name.s \notin DOMAIN functions THEN Panic(r)
       ELSE [r1 EXCEPT !.pc = functions[fn_name.s].instruction_range.end - 1]

OpWhile(r, args) ==
    IF r.stack = <<>> THEN Panic(r)
    ELSE LET r1 == [r EXCEPT !.stack = Pop(@)]
         IN IF bool_eval(Deref(r.memory, Top(r.stack))) THEN r1
            ELSE JumpTo(r1, args[1])

\* the argument pops of FnCall, in pop order:
\* self.stack.pop().unwrap_or(memory::mark(allocate(Value::Nil)))
RECURSIVE PopArgs(_, _, _)
PopArgs(r, n, acc) ==
    IF n = 0 THEN [r |-> r, fn_args |-> acc]
    ELSE LET fresh == NewPtr(r.memory)
             r1 == [r EXCEPT !.memory = mark(alloc_new_value(@, Nil), fresh)]
         IN IF r.stack = <<>>
            THEN PopArgs(r1, n - 1, Append(acc, fresh))
            ELSE PopArgs([r1 EXCEPT !.stack = Pop(@)], n - 1, Append(acc, Top(r.stack)))

\* a faulty reversal: the arguments stay in pop order
Unreversed(s) == s

Reverse(s) == [i \in 1..Len(s) |-> s[Len(s) + 1 - i]]

\* setup the variables: parameter idx of the owning scope <- fn_args[idx]
RECURSIVE BindParams(_, _, _, _)
BindParams(scope, parameters, fn_args, idx) ==
    IF idx > Len(parameters) THEN scope
    ELSE BindParams([scope EXCEPT ![parameters[idx].id] = fn_args[idx]],
                    parameters, fn_args, idx + 1)

\* a faulty push_call_stack: the frame records the callee's start instead
\* of the pc of the FnCall
push_call_stack_callee(r, fn_ptr) ==
    JumpTo([r EXCEPT !.call_stack = Append(@, [pc_before |-> fn_ptr])], fn_ptr)

\* VM::push_call_stack
push_call_stack(r, fn_ptr) ==
    JumpTo([r EXCEPT !.call_stack = Append(@, [pc_before |-> r.pc])], fn_ptr)

\* VM::pop_call_stack
pop_call_stack(r) ==
    IF r.call_stack = <<>> THEN Panic(r)
    ELSE [r EXCEPT !.pc = Top(r.call_stack).pc_before,
                   !.call_stack = Pop(@)]

OpFnCall(r) ==
    LET fn_name == PoppedName(r)
        r1 == PopOrNil(r)
    IN IF fn_name.t # "str" THEN Panic(r)
       ELSE IF fn_name.s \notin DOMAIN functions
       THEN runtime_error(r1, "Function " \o fn_name.s \o " not found")
       ELSE LET fn_obj == functions[fn_name.s]
                popped == PopArgs(r1, Len(fn_obj.parameters), <<>>)
                fn_args == Reverse(popped.fn_args)
                r2 == popped.r
                scope == r2.variables[fn_obj.scope_idx + 1]
            IN IF fn_obj.scope_idx >= Len(r2.variables)
                  \/ \E i \in 1..Len(fn_obj.parameters) :
                        fn_obj.parameters[i].id \notin DOMAIN scope
               THEN Panic(r2)
               ELSE LET r3 == [r2 EXCEPT !.variables[fn_obj.scope_idx + 1] =
                                   BindParams(@, fn_obj.parameters, fn_args, 1)]
                        r4 == push_call_stack(r3, fn_obj.instruction_range.start)
                    IN IF r4.status # "run" \/ fn_obj.returns THEN r4
                       ELSE PushNew(r4, Nil)

OpRet(r) == pop_call_stack(r)

OpArray(r, args) ==
    LET items == args[1]
        n == Len(r.stack)
    IN IF n < items THEN Panic(r)
       ELSE PushNew([r EXCEPT !.stack = SubSeq(@, 1, n - items)],
                    ArrayV([i \in 1..items |-> Deref(r.memory, r.stack[n - items + i])]))

OpIndex(r) ==
    IF Len(r.stack) < 2 THEN Panic(r)
    ELSE LET index == Deref(r.memory, Top(r.stack))
             array == Deref(r.memory, Top(Pop(r.stack)))
             r1 == [r EXCEPT !.stack = Pop(Pop(@))]
         IN IF index.t # "int" \/ array.t # "array" THEN Panic(r)
            ELSE IF index.i < 0 \/ index.i >= Len(array.a) THEN Panic(r)
            ELSE PushNew(r1, array.a[index.i + 1])

\* the closure an arithmetic opcode hands to perform_bin_op
BinaryResult(op, a, b) ==
    CASE op = "Mul" -> binary_mul(a, b)
      [] op = "Mod" -> binary_mod(a, b)
      [] op = "BinaryPow" -> binary_bitwise_xor(a, b)
      [] op = "Pow" -> binary_pow(a, b)
      [] op = "Sub" -> binary_sub(a, b)
      [] op = "Add" ->
            IF binary_add(a, b) # NoValue THEN binary_add(a, b)
            ELSE IF a.t = "str" \/ b.t = "str" THEN StrV(Display(a) \o Display(b))
            ELSE NoValue
      [] op = "Div" -> binary_div(a, b)

\* a faulty perform_bin_op: the first value popped is taken as the left
\* operand
perform_bin_op_swapped(r, op) ==
    IF Len(r.stack) < 2 THEN Panic(r)
    ELSE LET a == Deref(r.memory, Top(r.stack))
             b == Deref(r.memory, Top(Pop(r.stack)))
             result == BinaryResult(op, a, b)
         IN IF result \in {NoValue, PanicValue}
            THEN Panic(r)
            ELSE PushNew([r EXCEPT !.stack = Pop(Pop(@))], result)

\* VM::perform_bin_op, with Div's check of the right operand first
perform_bin_op(r, op) ==
    IF Len(r.stack) < 2 THEN Panic(r)
    ELSE LET b == Deref(r.memory, Top(r.stack))
             a == Deref(r.memory, Top(Pop(r.stack)))
             r1 == [r EXCEPT !.stack = Pop(Pop(@))]
         IN IF op = "Div" /\ is_zero(b)
            THEN runtime_error(r1, "Cannot divide by zero, " \o Display(a) \o " / "
                                     \o Display(b) \o " = undefined")
            ELSE LET result == BinaryResult(op, a, b)
                 IN CASE result = PanicValue -> Panic(r1)
                      [] result = NoValue ->
                            runtime_error(r1, "Cannot perform " \o op
                                \o " operation on values of type " \o get_type(a)
                                \o " and " \o get_type(b))
                      [] OTHER -> PushNew(r1, result)

\* the closure a comparison or logical opcode hands to compare_values
CompareResult(op, a, b) ==
    CASE op = "Lt" -> less_than(a, b)
      [] op = "Gt" -> greater_than(a, b)
      [] op = "Le" -> less_than_or_equal(a, b)
      [] op = "Ge" -> greater_than_or_equal(a, b)
      [] op = "Eq" -> equal_to(a, b)
      [] op = "Neq" -> not_equal_to(a, b)
      [] op = "And" -> and(a, b)
      [] op = "Or" -> or(a, b)

\* VM::compare_values
compare_values(r, op) ==
    IF Len(r.stack) < 2 THEN Panic(r)
    ELSE LET b == Deref(r.memory, Top(r.stack))
             a == Deref(r.memory, Top(Pop(r.stack)))
             r1 == [r EXCEPT !.stack = Pop(Pop(@))]
             result == CompareResult(op, a, b)
         IN IF result = NoValue
            THEN runtime_error(r1, "Cannot compare values of type " \o get_type(a)
                                     \o " and " \o get_type(b))
            ELSE PushNew(r1, result)

\* Inc (delta 1) and Dec (delta -1): the value is changed through the pointer
OpIncDec(r, delta) ==
    IF r.stack = <<>> THEN Panic(r)
    ELSE LET var_name == Deref(r.memory, Top(r.stack))
             r1 == [r EXCEPT !.stack = Pop(@)]
         IN IF var_name.t # "str" \/ var_name.s \notin DOMAIN variables_id THEN Panic(r1)
            ELSE LET v == get_var(r1.variables, variables_id[var_name.s])
                 IN IF v.res # "Some" THEN Panic(r1)
                    ELSE LET old == Deref(r1.memory, v.ptr)
                         IN CASE old.t \in {"int", "float"} ->
                                   [r1 EXCEPT !.memory.cells[v.ptr].val.i = @ + delta]
                              [] old.t = "bool" ->
                                   [r1 EXCEPT !.memory.cells[v.ptr].val.i = 1 - @]
                              [] OTHER ->
                                   runtime_error(r1,
                                       (IF delta = 1 THEN "Cannot increment value of type "
                                        ELSE "Cannot decrement value of type ") \o old.t)

RECURSIVE Product(_)
\* the product of 1..=n
Product(n) == IF n < 1 THEN 1 ELSE n * Product(n - 1)

OpFactorial(r) ==
    IF r.stack = <<>> THEN Panic(r)
    ELSE LET val == Deref(r.memory, Top(r.stack))
             r1 == [r EXCEPT !.stack = Pop(@)]
         IN CASE val.t = "int" ->
                   IF val.i < 0 THEN Panic(r1) ELSE PushNew(r1, IntV(Product(val.i)))
              [] val.t = "float" -> PushNew(r1, FloatV(Product(val.i)))
              [] OTHER -> runtime_error(r1,
                              "Cannot perform factorial on value of type " \o val.t)

OpJmp(r, args) == JumpTo(r, args[1])

\* a faulty TernaryStart: the jump to the else-block is taken when the
\* condition is truthy
OpTernaryStart_inverted(r, args) ==
    IF r.stack = <<>> THEN Panic(r)
    ELSE LET r1 == [r EXCEPT !.stack = Pop(@)]
         IN IF bool_eval(Deref(r.memory, Top(r.stack))) THEN JumpTo(r1, args[1])
            ELSE r1

OpTernaryStart(r, args) ==
    IF r.stack = <<>> THEN Panic(r)
    ELSE LET r1 == [r EXCEPT !.stack = Pop(@)]
         IN IF bool_eval(Deref(r.memory, Top(r.stack))) THEN r1
            ELSE JumpTo(r1, args[1])

\* Print (newline "") and Println (newline "\n"); a failing flush of stdout
\* is outside the model
OpPrint(r, newline) ==
    LET v == IF r.stack = <<>> THEN Nil ELSE Deref(r.memory, Top(r.stack))
        r1 == PopOrNil(r)
    IN [r1 EXCEPT !.output = Append(@, Display(v) \o newline)]

OpLen(r) ==
    IF r.stack = <<>> THEN Panic(r)
    ELSE LET val == Deref(r.memory, Top(r.stack))
         IN IF val.t # "array" THEN Panic(r)
            ELSE PushNew([r EXCEPT !.stack = Pop(@)], IntV(Len(val.a)))

\* Input: stdin holds the lines without their line ends; at end of input
\* read_line reads nothing and the empty string is pushed
OpInput(r) ==
    IF r.stack = <<>> THEN Panic(r)
    ELSE LET prompt == Deref(r.memory, Top(r.stack))
             r1 == [r EXCEPT !.stack = Pop(@),
                             !.output = IF prompt = Nil THEN @
                                        ELSE Append(@, Display(prompt))]
         IN IF r.stdin = <<>> THEN PushNew(r1, StrV(""))
            ELSE PushNew([r1 EXCEPT !.stdin = Tail(@)], StrV(Head(r.stdin)))

\* the numbers whose decimal text str::parse is modelled on
ParseLimit == 20
Parsable(x) == \E n \in 0..ParseLimit : ToString(n) = x
Parsed(x) == CHOOSE n \in 0..ParseLimit : ToString(n) = x

OpToInt(r) ==
    IF r.stack = <<>> THEN Panic(r)
    ELSE LET val == Deref(r.memory, Top(r.stack))
             r1 == [r EXCEPT !.stack = Pop(@)]
         IN CASE val.t \in {"int", "float", "bool"} -> PushNew(r1, IntV(val.i))
              [] val.t = "str" ->
                   IF Parsable(val.s) THEN PushNew(r1, IntV(Parsed(val.s)))
                   ELSE runtime_error(r1, "cannot parse the string to int value")
              [] val.t = "nil" -> PushNew(r1, IntV(0))
              [] OTHER -> runtime_error(r1, "cannot convert array type to int")

OpToFloat(r) ==
    IF r.stack = <<>> THEN Panic(r)
    ELSE LET val == Deref(r.memory, Top(r.stack))
             r1 == [r EXCEPT !.stack = Pop(@)]
         IN CASE val.t \in {"int", "float", "bool"} -> PushNew(r1, FloatV(val.i))
              [] val.t = "str" ->
                   IF Parsable(val.s) THEN PushNew(r1, FloatV(Parsed(val.s)))
                   ELSE runtime_error(r1, "cannot parse the string to float value")
              [] val.t = "nil" -> PushNew(r1, FloatV(0))
              [] OTHER -> runtime_error(r1, "cannot convert array type to int")

-----------------------------------------------------------------------------
(* The programs the model compiles and runs (source text in the comments). *)

\* f x = x + 1
\* $(f(41))
ProgInlineCall ==
    << EInlineFunction("f", <<"x">>, EBinary(EIdent("x"), "Add", EInt(1))),
       ECall("$", <<ECall("f", <<EInt(41)>>)>>) >>

\* g a b = { return a - b }
\* $(g(5, 3))
ProgReturningCall ==
    << EMultilineFunction("g", <<"a", "b">>,
            <<EReturn(EBinary(EIdent("a"), "Sub", EIdent("b")))>>),
       ECall("$", <<ECall("g", <<EInt(5), EInt(3)>>)>>) >>

\* h x = { $(x) }
\* h(7)
ProgPlainCall ==
    << EMultilineFunction("h", <<"x">>, <<ECall("$", <<EIdent("x")>>)>>),
       ECall("h", <<EInt(7)>>) >>

\* x = 10
\* f x = { return x }
\* $(f(1))
ProgShadow ==
    << ESet("x", EInt(10)),
       EMultilineFunction("f", <<"x">>, <<EReturn(EIdent("x"))>>),
       ECall("$", <<ECall("f", <<EInt(1)>>)>>) >>

\* x = 10
\* f x = { return x }
\* g y = { return y }
\* x = 20
\* $(f(1))
ProgShadowAssigned ==
    << ESet("x", EInt(10)),
       EMultilineFunction("f", <<"x">>, <<EReturn(EIdent("x"))>>),
       EMultilineFunction("g", <<"y">>, <<EReturn(EIdent("y"))>>),
       ESet("x", EInt(20)),
       ECall("$", <<ECall("f", <<EInt(1)>>)>>) >>

\* f x = x
\* $(x)
ProgUnboundParam ==
    << EInlineFunction("f", <<"x">>, EIdent("x")),
       ECall("$", <<EIdent("x")>>) >>

\* x = x + 1
ProgAbsentSlot ==
    << ESet("x", EBinary(EIdent("x"), "Add", EInt(1))) >>

\* i = 0
\* while i < 2 { $(i); i += 1 }
ProgWhile ==
    << ESet("i", EInt(0)),
       EWhile(EBinary(EIdent("i"), "Less", EInt(2)),
              <<ECall("$", <<EIdent("i")>>), EEqStmt("i", "AddEq", EInt(1))>>) >>

\* c = true
\* c ? { $(1) } : { $(2) }
\* nil ? { $(3) } : { $(4) }
\* 0 ? { $(5) }
\* c ? { $(6) }
ProgTernary ==
    << ESet("c", EBool(TRUE)),
       ETernary(EIdent("c"), <<ECall("$", <<EInt(1)>>)>>, <<ECall("$", <<EInt(2)>>)>>),
       ETernary(ENil, <<ECall("$", <<EInt(3)>>)>>, <<ECall("$", <<EInt(4)>>)>>),
       ETernary(EInt(0), <<ECall("$", <<EInt(5)>>)>>, <<>>),
       ETernary(EIdent("c"), <<ECall("$", <<EInt(6)>>)>>, <<>>) >>

\* f x = x + 1
\* g = f
\* $(g(1))
ProgAlias ==
    << EInlineFunction("f", <<"x">>, EBinary(EIdent("x"), "Add", EInt(1))),
       ESet("g", EIdent("f")),
       ECall("$", <<ECall("g", <<EInt(1)>>)>>) >>

\* x = 1
\* y = x
\* $(y)
ProgSetIdent ==
    << ESet("x", EInt(1)), ESet("y", EIdent("x")), ECall("$", <<EIdent("y")>>) >>

\* x = 1
\* x = 2
\* $(x)
ProgRebind ==
    << ESet("x", EInt(1)), ESet("x", EInt(2)), ECall("$", <<EIdent("x")>>) >>

\* 5
\* 3
ProgLiterals == << EInt(5), EInt(3) >>

\* outer a = { inner b = { return b * 2 }; return inner(a) }
\* $(outer(4))
ProgNested ==
    << EMultilineFunction("outer", <<"a">>,
          << EMultilineFunction("inner", <<"b">>,
                <<EReturn(EBinary(EIdent("b"), "Mul", EInt(2)))>>),
             EReturn(ECall("inner", <<EIdent("a")>>)) >>),
       ECall("$", <<ECall("outer", <<EInt(4)>>)>>) >>

\* arr = [1, 2, 3]
\* $(arr[1]); $(len(arr)); $(type(arr)); $(arr + [4])
ProgArray ==
    << ESet("arr", EArray(<<EInt(1), EInt(2), EInt(3)>>)),
       ECall("$", <<EIndex(EIdent("arr"), EInt(1))>>),
       ECall("$", <<ECall("len", <<EIdent("arr")>>)>>),
       ECall("$", <<ECall("type", <<EIdent("arr")>>)>>),
       ECall("$", <<EBinary(EIdent("arr"), "Add", EArray(<<EInt(4)>>))>>) >>

\* n = to_i(input("? "))
\* n++
\* $$(n!)
\* $(to_f(n) / 2)
\* n--
ProgBuiltins ==
    << ESet("n", ECall("to_i", <<ECall("input", <<EString("? ")>>)>>)),
       EPostfix(EIdent("n"), "Increase"),
       ECall("$$", <<EPostfix(EIdent("n"), "Factorial")>>),
       ECall("$", <<EBinary(ECall("to_f", <<EIdent("n")>>), "Div", EInt(2))>>),
       EPostfix(EIdent("n"), "Decrease") >>

\* $(10 / 0)
ProgDivZero == << ECall("$", <<EBinary(EInt(10), "Div", EInt(0))>>) >>

\* while input("") == "3" { $(1) }
ProgWhileFirst ==
    << EWhile(EBinary(ECall("input", <<EString("")>>), "Eq", EString("3")),
              <<ECall("$", <<EInt(1)>>)>>) >>

\* $(10 / 0.0)
ProgDivFloatZero == << ECall("$", <<EBinary(EInt(10), "Div", EFloat(0))>>) >>

\* x = 6
\* x /= 0
ProgDivAssignZero == << ESet("x", EInt(6)), EEqStmt("x", "DivEq", EInt(0)) >>

\* y = 6
\* y /= 0.0
ProgDivAssignFloatZero == << ESet("y", EInt(6)), EEqStmt("y", "DivEq", EFloat(0)) >>

\* arr = [1, 2, 3]
\* $(arr[3])
ProgIndexOut ==
    << ESet("arr", EArray(<<EInt(1), EInt(2), EInt(3)>>)),
       ECall("$", <<EIndex(EIdent("arr"), EInt(3))>>) >>

\* 7
\* $()
ProgBareBuiltin == << EInt(7), ECall("$", <<>>) >>

\* $()
\* $$()
ProgBareOnly == << ECall("$", <<>>), ECall("$$", <<>>) >>

\* nope(1)
ProgUnknownCall == << ECall("nope", <<EInt(1)>>) >>

\* the operands of the logical programs
LogicOperands ==
    << EBool(TRUE), EBool(FALSE), ENil, EInt(0), EString("a"), EArray(<<>>) >>

\* $(a && b)
\* $(a || b)
ProgLogic(a, b) ==
    << ECall("$", <<EBinary(a, "And", b)>>), ECall("$", <<EBinary(a, "Or", b)>>) >>

LogicPrograms ==
    LET n == Len(LogicOperands)
    IN [i \in 1..(n * n) |->
            ProgLogic(LogicOperands[((i - 1) \div n) + 1], LogicOperands[((i - 1) % n) + 1])]

\* x = 1
\* y
ProgUnboundIdent == << ESet("x", EInt(1)), EIdent("y") >>

\* x = 1
\* y += 2
\* $(x)
ProgUnboundEqStmt ==
    << ESet("x", EInt(1)), EEqStmt("y", "AddEq", EInt(2)), ECall("$", <<EIdent("x")>>) >>

\* x = 1
\* x++
\* y = 2.0
\* y--
\* b = true
\* b--
\* s = "a"
\* $(x)
\* s++
ProgIncDec ==
    << ESet("x", EInt(1)), EPostfix(EIdent("x"), "Increase"),
       ESet("y", EFloat(2)), EPostfix(EIdent("y"), "Decrease"),
       ESet("b", EBool(TRUE)), EPostfix(EIdent("b"), "Decrease"),
       ESet("s", EString("a")), ECall("$", <<EIdent("x")>>),
       EPostfix(EIdent("s"), "Increase") >>

\* x = 1
\* x++
\* $(x)
\* f x = x
ProgIncRebound ==
    << ESet("x", EInt(1)), EPostfix(EIdent("x"), "Increase"),
       ECall("$", <<EIdent("x")>>), EInlineFunction("f", <<"x">>, EIdent("x")) >>

\* 5 - 3
\* $(7 - 2)
\* "a" + 1
\* 2 < 3
ProgBinary ==
    << EBinary(EInt(5), "Sub", EInt(3)),
       ECall("$", <<EBinary(EInt(7), "Sub", EInt(2))>>),
       EBinary(EString("a"), "Add", EInt(1)),
       EBinary(EInt(2), "Less", EInt(3)) >>

\* k a b = { return a - b }
\* k(5, 3)
\* $(k(k(9, 2), 3))
\* z()
ProgCalls ==
    << EMultilineFunction("k", <<"a", "b">>,
            << EReturn(EBinary(EIdent("a"), "Sub", EIdent("b"))) >>),
       ECall("k", <<EInt(5), EInt(3)>>),
       ECall("$", <<ECall("k", <<ECall("k", <<EInt(9), EInt(2)>>), EInt(3)>>)>>),
       ECall("z", <<>>) >>

\* the conditions the truthiness is tried on
TruthOperands ==
    << ENil, EBool(FALSE), EInt(0), EFloat(0), EString(""), EArray(<<>>),
       EInt(1), EString("a"), EBool(TRUE), EFloat(2) >>

\* c ? { $$("t") } : { $$("f") } for each condition c, then
\* while "" { $$("w") }
\* while 0.0 { $$("w") }
\* while [] { $$("w") }
ProgTruthiness ==
    [i \in 1..Len(TruthOperands) |->
        ETernary(TruthOperands[i], <<ECall("$$", <<EString("t")>>)>>,
                                   <<ECall("$$", <<EString("f")>>)>>)]
    \o << EWhile(EString(""), <<ECall("$$", <<EString("w")>>)>>),
          EWhile(EFloat(0), <<ECall("$$", <<EString("w")>>)>>),
          EWhile(EArray(<<>>), <<ECall("$$", <<EString("w")>>)>>) >>

\* x = (y = 1)
\* $(y)
ProgSetInSet ==
    << ESet("x", ESet("y", EInt(1))), ECall("$", <<EIdent("y")>>) >>

\* f x = { $(x); x = 9 }
\* g y = { $(y) }
\* f(1)
\* f(2)
ProgParamReassigned ==
    << EMultilineFunction("f", <<"x">>,
            << ECall("$", <<EIdent("x")>>), ESet("x", EInt(9)) >>),
       EMultilineFunction("g", <<"y">>, << ECall("$", <<EIdent("y")>>) >>),
       ECall("f", <<EInt(1)>>),
       ECall("f", <<EInt(2)>>) >>

\* f n = { n > 0 ? { f(n - 1) } : { }; $(n) }
\* f(1)
ProgRecursive ==
    << EMultilineFunction("f", <<"n">>,
            << ETernary(EBinary(EIdent("n"), "Greater", EInt(0)),
                        << ECall("f", <<EBinary(EIdent("n"), "Sub", EInt(1))>>) >>,
                        <<>>),
               ECall("$", <<EIdent("n")>>) >>),
       ECall("f", <<EInt(1)>>) >>

\* x = 1
\* f p = { p++ }
\* f(x)
\* $(x)
ProgIncParam ==
    << ESet("x", EInt(1)),
       EMultilineFunction("f", <<"p">>, << EPostfix(EIdent("p"), "Increase") >>),
       ECall("f", <<EIdent("x")>>),
       ECall("$", <<EIdent("x")>>) >>

\* i = 0
\* while i < 2 { k = 5; k++; $(k); i += 1 }
ProgConstLoop ==
    << ESet("i", EInt(0)),
       EWhile(EBinary(EIdent("i"), "Less", EInt(2)),
              << ESet("k", EInt(5)), EPostfix(EIdent("k"), "Increase"),
                 ECall("$", <<EIdent("k")>>), EEqStmt("i", "AddEq", EInt(1)) >>) >>

\* a Return outside any function body
ProgTopReturn == << ECall("$", <<EInt(1)>>), EReturn(EInt(2)), ECall("$", <<EInt(3)>>) >>

Programs ==
    << ProgInlineCall, ProgReturningCall, ProgPlainCall, ProgShadow,
       ProgShadowAssigned, ProgUnboundParam, ProgAbsentSlot, ProgWhile,
       ProgTernary, ProgAlias, ProgSetIdent, ProgRebind, ProgLiterals,
       ProgNested, ProgArray, ProgBuiltins, ProgDivZero, ProgWhileFirst,
       ProgDivFloatZero, ProgDivAssignZero, ProgDivAssignFloatZero,
       ProgIndexOut, ProgBareBuiltin, ProgBareOnly, ProgUnknownCall,
       ProgUnboundIdent, ProgUnboundEqStmt, ProgIncDec, ProgIncRebound,
       ProgBinary, ProgCalls, ProgTruthiness, ProgSetInSet,
       ProgParamReassigned, ProgRecursive, ProgIncParam, ProgConstLoop,
       ProgTopReturn >>
    \o LogicPrograms

\* what stdin may hold
Inputs == << <<"3">>, <<"x">> >>

\* the unit tests that call run_byte on a VM they set up by hand: the
\* constants added, the functions inserted and the instruction dispatched
Tests ==
    << [name |-> "test_run_byte_load_const",
        constants |-> << IntV(5) >>,
        functions |-> EmptyMap,
        instr |-> Instr("LoadConst", <<0>>)],
       [name |-> "test_run_byte_fn_call",
        constants |-> << IntV(5) >>,
        functions |-> ("f" :> [name |-> "f",
                               parameters |-> << [name |-> "x", id |-> 0] >>,
                               instruction_range |-> [start |-> 0, end |-> 0],
                               scope_idx |-> 0,
                               returns |-> TRUE]),
        instr |-> Instr("FnCall", <<0>>)] >>

-----------------------------------------------------------------------------
(* The state machine. *)

\* VM::new followed by compile() on a program, or by the set-up of a unit
\* test
Init ==
    /\ \/ /\ \E p \in 1..Len(Programs) : exprs = Programs[p]
          /\ status = "compile"
          /\ constants = <<>>
          /\ functions = EmptyMap
       \/ /\ exprs = <<>>
          /\ status = "unit"
          /\ \E t \in 1..Len(Tests) :
                constants = Tests[t].constants /\ functions = Tests[t].functions
    /\ \E i \in 1..Len(Inputs) : stdin = Inputs[i]
    /\ overflow_checks \in BOOLEAN
    /\ expr_idx = 0
    /\ pc = 0
    /\ stack = <<>>
    /\ variables_id = EmptyMap
    /\ variables = <<EmptyMap>>
    /\ var_id_count = 0
    /\ instructions = <<>>
    /\ iteration = 0
    /\ call_stack = <<>>
    /\ memory = [cells |-> EmptyMap, next |-> 1]
    /\ output = <<>>
    /\ diagnostic = ""
    /\ call_depth = <<>>

\* the compiler's view of the VM
CState ==
    [instructions |-> instructions, constants |-> constants,
     variables_id |-> variables_id, var_id_count |-> var_id_count,
     variables |-> variables, functions |-> functions, stack |-> stack,
     memory |-> memory, status |-> status]

\* VM::compile, one turn of its loop: compile_expr of the next expression
CompileStep ==
    /\ status = "compile"
    /\ expr_idx < Len(exprs)
    /\ LET c == compile_expr(CState, exprs[expr_idx + 1])
       IN /\ instructions' = c.instructions
          /\ constants' = c.constants
          /\ variables_id' = c.variables_id
          /\ var_id_count' = c.var_id_count
          /\ variables' = c.variables
          /\ functions' = c.functions
          /\ stack' = c.stack
          /\ memory' = c.memory
          /\ status' = c.status
          /\ diagnostic' = IF c.status = "error" THEN "Variable not found" ELSE diagnostic
    /\ expr_idx' = expr_idx + 1
    /\ UNCHANGED <<exprs, overflow_checks, pc, iteration, call_stack, output,
                   stdin, call_depth>>

\* VM::compile after its loop: Halt is pushed and run() begins
CompileHalt ==
    /\ status = "compile"
    /\ expr_idx = Len(exprs)
    /\ instructions' = Append(instructions, Instr("Halt", <<>>))
    /\ status' = "run"
    /\ UNCHANGED <<exprs, expr_idx, overflow_checks, pc, stack, variables_id,
                   variables, constants, var_id_count, iteration, functions,
                   call_stack, memory, output, stdin, diagnostic, call_depth>>

\* what no instruction changes
fixedVars == <<exprs, expr_idx, overflow_checks, variables_id, constants,
               var_id_count, instructions, functions>>

\* the instruction at pc
CurInstr == instructions[pc + 1]

\* VM::run, one turn of its loop, taken for an opcode of ops
Dispatch(ops) ==
    /\ status = "run"
    /\ pc >= 0
    /\ pc < Len(instructions)
    /\ iteration < MaxIteration
    /\ CurInstr.op \in ops

\* the state run_byte starts from: run() has collected if the trigger is reached
Entry ==
    [pc |-> pc, stack |-> stack, variables |-> variables,
     call_stack |-> call_stack,
     memory |-> IF iteration = GC_TRIGGER
                THEN gc_recollect(memory, stack, variables) ELSE memory,
     output |-> output, stdin |-> stdin, status |-> "run",
     diagnostic |-> diagnostic]

\* a faulty end of run_byte: the counter starts again after the dispatch
\* that collected
Commit_reset(r) ==
    /\ pc' = IF r.status = "run" THEN r.pc + 1 ELSE pc
    /\ iteration' = IF r.status # "run" THEN iteration
                    ELSE IF iteration = GC_TRIGGER THEN 0 ELSE iteration + 1
    /\ stack' = r.stack
    /\ variables' = r.variables
    /\ call_stack' = r.call_stack
    /\ memory' = r.memory
    /\ output' = r.output
    /\ stdin' = r.stdin
    /\ status' = r.status
    /\ diagnostic' = r.diagnostic
    /\ UNCHANGED fixedVars

\* the end of run_byte: self.pc += 1; self.iteration += 1 unless the
\* instruction ended the run
Commit(r) ==
    /\ pc' = IF r.status = "run" THEN r.pc + 1 ELSE pc
    /\ iteration' = IF r.status = "run" THEN iteration + 1 ELSE iteration
    /\ stack' = r.stack
    /\ variables' = r.variables
    /\ call_stack' = r.call_stack
    /\ memory' = r.memory
    /\ output' = r.output
    /\ stdin' = r.stdin
    /\ status' = r.status
    /\ diagnostic' = r.diagnostic
    /\ UNCHANGED fixedVars

RunHalt == Dispatch({"Halt"}) /\ Commit(OpHalt(Entry)) /\ UNCHANGED call_depth

RunTypeOf == Dispatch({"TypeOf"}) /\ Commit(OpTypeOf(Entry)) /\ UNCHANGED call_depth

RunMakeVar == Dispatch({"MakeVar"}) /\ Commit(OpMakeVar(Entry)) /\ UNCHANGED call_depth

RunReplace ==
    Dispatch({"Replace"}) /\ Commit(OpReplace(Entry, CurInstr.args)) /\ UNCHANGED call_depth

RunGetVar ==
    Dispatch({"GetVar"}) /\ Commit(OpGetVar(Entry, CurInstr.args)) /\ UNCHANGED call_depth

RunLoadConst ==
    Dispatch({"LoadConst"}) /\ Commit(OpLoadConst(Entry, CurInstr.args))
    /\ UNCHANGED call_depth

RunFunction == Dispatch({"Function"}) /\ Commit(OpFunction(Entry)) /\ UNCHANGED call_depth

RunWhile ==
    Dispatch({"While"}) /\ Commit(OpWhile(Entry, CurInstr.args)) /\ UNCHANGED call_depth

\* the operand stack depth below the arguments of the call being dispatched
ArgBase ==
    LET name == PoppedName(Entry)
        n == IF name.t = "str" /\ name.s \in DOMAIN functions
             THEN Len(functions[name.s].parameters) ELSE 0
    IN IF Len(stack) >= n + 1 THEN Len(stack) - 1 - n ELSE 0

RunFnCall ==
    /\ Dispatch({"FnCall"})
    /\ Commit(OpFnCall(Entry))
    /\ call_depth' = IF Len(call_stack') > Len(call_stack)
                     THEN Append(call_depth, ArgBase) ELSE call_depth

RunRet ==
    /\ Dispatch({"Ret"})
    /\ Commit(OpRet(Entry))
    /\ call_depth' = IF Len(call_stack') < Len(call_stack)
                     THEN Pop(call_depth) ELSE call_depth

RunArray ==
    Dispatch({"Array"}) /\ Commit(OpArray(Entry, CurInstr.args)) /\ UNCHANGED call_depth

RunIndex == Dispatch({"Index"}) /\ Commit(OpIndex(Entry)) /\ UNCHANGED call_depth

ArithmeticOps == {"Mul", "Mod", "BinaryPow", "Pow", "Sub", "Add", "Div"}

RunBinOp ==
    /\ Dispatch(ArithmeticOps)
    /\ Commit(perform_bin_op(Entry, CurInstr.op))
    /\ UNCHANGED call_depth

CompareOps == {"Lt", "Gt", "Le", "Ge", "Eq", "Neq", "And", "Or"}

RunCompare ==
    /\ Dispatch(CompareOps)
    /\ Commit(compare_values(Entry, CurInstr.op))
    /\ UNCHANGED call_depth

RunIncDec ==
    /\ Dispatch({"Inc", "Dec"})
    /\ Commit(OpIncDec(Entry, IF CurInstr.op = "Inc" THEN 1 ELSE -1))
    /\ UNCHANGED call_depth

RunFactorial ==
    Dispatch({"Factorial"}) /\ Commit(OpFactorial(Entry)) /\ UNCHANGED call_depth

RunJmp == Dispatch({"Jmp"}) /\ Commit(OpJmp(Entry, CurInstr.args)) /\ UNCHANGED call_depth

RunTernaryStart ==
    /\ Dispatch({"TernaryStart"})
    /\ Commit(OpTernaryStart(Entry, CurInstr.args))
    /\ UNCHANGED call_depth

RunPrint ==
    /\ Dispatch({"Print", "Println"})
    /\ Commit(OpPrint(Entry, IF CurInstr.op = "Println" THEN "\n" ELSE ""))
    /\ UNCHANGED call_depth

RunLen == Dispatch({"Len"}) /\ Commit(OpLen(Entry)) /\ UNCHANGED call_depth

RunInput == Dispatch({"Input"}) /\ Commit(OpInput(Entry)) /\ UNCHANGED call_depth

RunToInt == Dispatch({"ToInt"}) /\ Commit(OpToInt(Entry)) /\ UNCHANGED call_depth

RunToFloat == Dispatch({"ToFloat"}) /\ Commit(OpToFloat(Entry)) /\ UNCHANGED call_depth

\* the run-time state of the VM
Current ==
    [pc |-> pc, stack |-> stack, variables |-> variables,
     call_stack |-> call_stack, memory |-> memory, output |-> output,
     stdin |-> stdin, status |-> status, diagnostic |-> diagnostic]

\* VM::run_byte: the arm of the opcode, then self.pc += 1 unless the
\* instruction ended the run
run_byte(r, instr) ==
    LET op == instr.op
        args == instr.args
        r1 == CASE op = "Halt" -> OpHalt(r)
                [] op = "TypeOf" -> OpTypeOf(r)
                [] op = "MakeVar" -> OpMakeVar(r)
                [] op = "Replace" -> OpReplace(r, args)
                [] op = "GetVar" -> OpGetVar(r, args)
                [] op = "LoadConst" -> OpLoadConst(r, args)
                [] op = "Function" -> OpFunction(r)
                [] op = "While" -> OpWhile(r, args)
                [] op = "FnCall" -> OpFnCall(r)
                [] op = "Ret" -> OpRet(r)
                [] op = "Array" -> OpArray(r, args)
                [] op = "Index" -> OpIndex(r)
                [] op \in ArithmeticOps -> perform_bin_op(r, op)
                [] op \in CompareOps -> compare_values(r, op)
                [] op = "Inc" -> OpIncDec(r, 1)
                [] op = "Dec" -> OpIncDec(r, -1)
                [] op = "Factorial" -> OpFactorial(r)
                [] op = "Jmp" -> OpJmp(r, args)
                [] op = "TernaryStart" -> OpTernaryStart(r, args)
                [] op = "Print" -> OpPrint(r, "")
                [] op = "Println" -> OpPrint(r, "\n")
                [] op = "Len" -> OpLen(r)
                [] op = "Input" -> OpInput(r)
                [] op = "ToInt" -> OpToInt(r)
                [] op = "ToFloat" -> OpToFloat(r)
    IN IF r1.status = "run" THEN [r1 EXCEPT !.pc = @ + 1] ELSE r1

\* a unit test's call of run_byte on the VM it has set up
RunByteTest ==
    /\ status = "unit"
    /\ \E t \in 1..Len(Tests) :
         /\ constants = Tests[t].constants
         /\ functions = Tests[t].functions
         /\ LET r == run_byte([Current EXCEPT !.status = "run"], Tests[t].instr)
            IN /\ pc' = r.pc
               /\ iteration' = IF r.status = "run" THEN iteration + 1 ELSE iteration
               /\ stack' = r.stack
               /\ variables' = r.variables
               /\ call_stack' = r.call_stack
               /\ memory' = r.memory
               /\ output' = r.output
               /\ stdin' = r.stdin
               /\ status' = IF r.status = "run" THEN "tested" ELSE r.status
               /\ diagnostic' = r.diagnostic
    /\ UNCHANGED fixedVars
    /\ UNCHANGED call_depth

Next ==
    \/ CompileStep
    \/ CompileHalt
    \/ RunHalt
    \/ RunTypeOf
    \/ RunMakeVar
    \/ RunReplace
    \/ RunGetVar
    \/ RunLoadConst
    \/ RunFunction
    \/ RunWhile
    \/ RunFnCall
    \/ RunRet
    \/ RunArray
    \/ RunIndex
    \/ RunBinOp
    \/ RunCompare
    \/ RunIncDec
    \/ RunFactorial
    \/ RunJmp
    \/ RunTernaryStart
    \/ RunPrint
    \/ RunLen
    \/ RunInput
    \/ RunToInt
    \/ RunToFloat
    \/ RunByteTest

Spec == Init /\ [][Next]_vars

-----------------------------------------------------------------------------
(* Properties of the call protocol. *)

\* the run loop is about to dispatch an instruction with this opcode
AtOp(op) ==
    /\ status = "run"
    /\ pc >= 0
    /\ pc < Len(instructions)
    /\ CurInstr.op = op

\* the FunctionData a FnCall at the current pc is about to call
Callee == functions[PoppedName(Entry).s]

\* the FnCall at the current pc finds its function
CallFound ==
    /\ AtOp("FnCall")
    /\ PoppedName(Entry).t = "str"
    /\ PoppedName(Entry).s \in DOMAIN functions

\* position p lies in the instruction range of some function
InBody(p) ==
    \E f \in DOMAIN functions :
        /\ functions[f].instruction_range.start <= p
        /\ p < functions[f].instruction_range.end

\* C1: every function call leaves the operand stack exactly one deeper than
\* it was before the first argument was pushed: when the Ret that ends a
\* call returns, the depth is the depth below the arguments plus one,
\* whether the function is inline or multi-line, returning or not.
C1_CallLeavesOneValue ==
    [][(AtOp("Ret") /\ call_stack # <<>>) => Len(stack') = Top(call_depth) + 1]_vars

\* C2: a FnCall that finds its function pushes exactly one frame, holding
\* the pc of that FnCall; a Ret pops exactly the top frame, which is the
\* frame of a FnCall, and the next instruction dispatched is the one right
\* after that FnCall; frames nest, so the call-stack depth is then the
\* depth from before the call.
C2_FrameProtocol ==
    [][/\ (CallFound /\ status' = "run") =>
              /\ call_stack' = Append(call_stack, [pc_before |-> pc])
              /\ pc' = Callee.instruction_range.start
       /\ (AtOp("Ret") /\ call_stack # <<>>) =>
              /\ call_stack' = Pop(call_stack)
              /\ Len(call_stack') = Len(call_depth')
              /\ status' = "run"
              /\ pc' = Top(call_stack).pc_before + 1
              /\ instructions[pc'].op = "FnCall"]_vars

\* a call has returned to the top level: the instruction before pc is a
\* FnCall, which never falls through to its successor
C2_Returned ==
    /\ status = "run"
    /\ pc >= 1
    /\ pc < Len(instructions)
    /\ instructions[pc].op = "FnCall"
    /\ call_stack = <<>>
    /\ call_depth = <<>>

\* C3: function bodies run only through FnCall: a Function instruction
\* moves pc to the end of the function's instruction range, and pc is
\* inside a function's instruction range only while the call stack is
\* non-empty.
C3_BodyOnlyByCall ==
    [][/\ (AtOp("Function") /\ status' = "run") =>
              /\ pc' = functions[PoppedName(Entry).s].instruction_range.end
              /\ call_stack' = call_stack
       /\ (status' = "run" /\ InBody(pc')) => call_stack' # <<>>]_vars

\* a Function instruction at the top level has been stepped over: pc is
\* right behind a body whose definition was just skipped
C3_Skipped ==
    /\ status = "run"
    /\ call_stack = <<>>
    /\ pc >= 1
    /\ pc < Len(instructions)
    /\ InBody(pc - 1)
    /\ ~InBody(pc)
    /\ instructions[pc].op = "Ret"
    /\ iteration = 2

\* C4: arguments are evaluated left to right, and when the body starts the
\* i-th parameter slot of the owning scope is bound to the i-th argument:
\* the pointer the i-th argument expression left on the stack.
C4_ParamsBoundInOrder ==
    [][(CallFound /\ status' = "run") =>
          LET n == Len(Callee.parameters)
          IN /\ Len(stack) >= n + 1
             /\ \A i \in 1..n :
                   variables'[Callee.scope_idx + 1][Callee.parameters[i].id]
                       = stack[Len(stack) - 1 - n + i]]_vars

\* g(5, 3) has just been entered: a is 5 and b is 3
C4_Entered ==
    /\ exprs = ProgReturningCall
    /\ status = "run"
    /\ Len(call_stack) = 1
    /\ "g" \in DOMAIN functions
    /\ pc = functions["g"].instruction_range.start
    /\ LET g == functions["g"]
       IN /\ Len(g.parameters) = 2
          /\ g.parameters[1].name = "a"
          /\ Deref(memory, variables[g.scope_idx + 1][g.parameters[1].id]) = IntV(5)
          /\ Deref(memory, variables[g.scope_idx + 1][g.parameters[2].id]) = IntV(3)

\* C5: GetVar on a slot that exists in some scope but is unbound pushes
\* Nil and goes on; GetVar on a slot in no scope is a reported runtime
\* error; GetVar faults in no other way.
C5_GetVarUnboundIsNil ==
    [][AtOp("GetVar") =>
          LET sc == ScopeOf(variables, CurInstr.args[1], Len(variables))
          IN /\ sc = 0 => (status' = "error" /\ diagnostic' = "Variable not found")
             /\ sc # 0 => status' = "run"
             /\ (sc # 0 /\ variables[sc][CurInstr.args[1]] = NoPtr) =>
                    /\ Len(stack') = Len(stack) + 1
                    /\ Deref(memory', Top(stack')) = Nil]_vars

-----------------------------------------------------------------------------
(* Properties of the compiler's output. *)

\* the expression the next CompileStep compiles
CurExpr == exprs[expr_idx + 1]

\* compile() is about to compile a top-level expression of this kind
Compiling(kinds) ==
    /\ status = "compile"
    /\ expr_idx < Len(exprs)
    /\ CurExpr.k \in kinds

\* the instructions a step appended
Emitted == SubSeq(instructions', Len(instructions) + 1, Len(instructions'))

\* C6: compiling Set(name, value), value not the name of an existing
\* function (and so also when value is the identifier of an ordinary
\* variable): a new name gives MakeVar, the value's instructions, Replace
\* with the slot id recorded for the name, and the slot counter advances;
\* a bound name gives the value's instructions and Replace with the
\* existing slot id.
C6_SetLowering ==
    [][(/\ Compiling({"Set"})
        /\ ~(CurExpr.value.k = "Ident" /\ CurExpr.value.name \in DOMAIN functions)
        /\ status' = "compile") =>
          IF CurExpr.name \notin DOMAIN variables_id
          THEN /\ Len(Emitted) >= 3
               /\ Emitted[1] = Instr("MakeVar", <<>>)
               /\ Emitted[Len(Emitted)] = Instr("Replace", <<variables_id'[CurExpr.name]>>)
               /\ variables_id'[CurExpr.name] = var_id_count
               /\ var_id_count' = var_id_count + 1
          ELSE /\ Len(Emitted) >= 2
               /\ Emitted[Len(Emitted)] = Instr("Replace", <<variables_id[CurExpr.name]>>)
               /\ variables_id' = variables_id
               /\ var_id_count' = var_id_count]_vars

\* the number of Halt instructions in a vector
RECURSIVE HaltCount(_)
HaltCount(is) ==
    IF is = <<>> THEN 0
    ELSE (IF Head(is).op = "Halt" THEN 1 ELSE 0) + HaltCount(Tail(is))

\* C8: once compile has returned the instruction vector holds exactly one
\* Halt, as its last instruction; and each top-level literal adds exactly
\* one constant, its value, at the end of the pool, and exactly one
\* LoadConst, of that constant, at the end of the instructions.
C8_HaltLastLiteralsInOrder ==
    [][/\ status' = "run" =>
              /\ instructions' # <<>>
              /\ instructions'[Len(instructions')].op = "Halt"
              /\ HaltCount(instructions') = 1
       /\ Compiling(Literals) =>
              /\ constants' = Append(constants, CurExpr.val)
              /\ instructions' = Append(instructions, Instr("LoadConst", <<Len(constants)>>))
              /\ status' = "compile"]_vars

\* the program 5; 3 has been compiled
C8_LiteralsCompiled ==
    /\ exprs = ProgLiterals
    /\ status = "run"
    /\ iteration = 0
    /\ constants = <<IntV(5), IntV(3)>>
    /\ instructions = <<Instr("LoadConst", <<0>>), Instr("LoadConst", <<1>>),
                        Instr("Halt", <<>>)>>

-----------------------------------------------------------------------------
(* Properties of the instructions. *)

\* C7: And pushes Bool(true) exactly when both operands are truthy, Or
\* exactly when at least one is, for every pair of operands, and neither
\* fails.
C7_AndOrByTruthiness ==
    [][(/\ status = "run" /\ pc >= 0 /\ pc < Len(instructions)
        /\ CurInstr.op \in {"And", "Or"}
        /\ Len(stack) >= 2) =>
          LET b == bool_eval(Deref(memory, stack[Len(stack)]))
              a == bool_eval(Deref(memory, stack[Len(stack) - 1]))
          IN /\ status' = "run"
             /\ Len(stack') = Len(stack) - 1
             /\ Deref(memory', Top(stack')) =
                    BoolV(IF CurInstr.op = "And" THEN a /\ b ELSE a \/ b)]_vars

\* function f owns the parameter slot id and position p is in its body
ParamOf(f, id, p) ==
    /\ functions[f].instruction_range.start <= p
    /\ p < functions[f].instruction_range.end
    /\ \E i \in 1..Len(functions[f].parameters) : functions[f].parameters[i].id = id

\* C9: in a function body an identifier that names both a parameter and an
\* outer variable is the parameter: its GetVar carries the parameter's
\* slot id, and running it pushes what the call bound to that slot in the
\* function's owning scope, the value passed to the call.
C9_ParamShadowsOuter ==
    [][/\ (Compiling({"MultilineFunction", "InlineFunction"}) /\ status' = "compile") =>
          LET f == functions'[CurExpr.name]
          IN \A i \in 1..Len(CurExpr.params) :
                /\ f.parameters[i].name = CurExpr.params[i]
                /\ variables_id'[CurExpr.params[i]] = f.parameters[i].id
       /\ (AtOp("GetVar") /\ call_stack # <<>>) =>
          \A f \in DOMAIN functions :
              ParamOf(f, CurInstr.args[1], pc) =>
                  /\ status' = "run"
                  /\ Top(stack') = variables[functions[f].scope_idx + 1][CurInstr.args[1]]]_vars

-----------------------------------------------------------------------------
(* Properties of the heap. *)

\* the roots: the operand stack and the bound slots of every scope
Roots == {stack[i] : i \in 1..Len(stack)} \cup BoundPtrs(variables)

\* C10: every pointer on the operand stack and every bound pointer of every
\* scope is registered in the heap, and a collection run now (the roots
\* marked, then the sweep) would leave every one of them registered.
C10_NoDangling ==
    /\ \A p \in Roots : Registered(memory, p)
    /\ \A p \in Roots : Registered(gc_recollect(memory, stack, variables), p)

\* a collection has dropped garbage while the stack and a scope held
\* pointers
C10_Collected ==
    /\ status = "run"
    /\ iteration > GC_TRIGGER
    /\ stack # <<>>
    /\ BoundPtrs(variables) # {}
    /\ Cardinality(DOMAIN memory.cells) < memory.next - 1

\* run() or the Halt arm is about to call gc_recollect
Collecting ==
    /\ status = "run"
    /\ pc >= 0
    /\ pc < Len(instructions)
    /\ (iteration = GC_TRIGGER \/ CurInstr.op = "Halt")

\* C11: right after any collection by gc_recollect the registered entries
\* are exactly the entries the roots point to: nothing unreachable
\* survives the sweep, whatever ran before, calls of functions with
\* parameters included.
C11_CollectionExact ==
    Collecting => DOMAIN gc_recollect(memory, stack, variables).cells = Roots

-----------------------------------------------------------------------------
(* The run loop as a function of the trigger, to compare runs of one       *)
(* program under different triggers.                                        *)

\* VM::run from run-time state r at iteration it, collecting when the
\* iteration equals trigger; followed up to MaxIteration
RECURSIVE run(_, _, _)
run(r, it, trigger) ==
    IF r.status # "run" \/ it >= MaxIteration \/ r.pc < 0 \/ r.pc >= Len(instructions)
    THEN r
    ELSE run(run_byte([r EXCEPT !.memory = IF it = trigger
                                          THEN gc_recollect(@, r.stack, r.variables)
                                          ELSE @],
                      instructions[r.pc + 1]),
             it + 1, trigger)

\* what a run shows: how it ended, what it printed, and the value of every
\* slot of every scope (NoValue for an unbound slot)
Outcome(r) ==
    [status |-> r.status,
     diagnostic |-> r.diagnostic,
     output |-> r.output,
     bindings |-> [i \in 1..Len(r.variables) |->
                     [id \in DOMAIN r.variables[i] |->
                        IF r.variables[i][id] = NoPtr THEN NoValue
                        ELSE Deref(r.memory, r.variables[i][id])]]]

\* compile has just handed over to run
RunStarts == status = "run" /\ iteration = 0

\* C12: a terminating program run with the trigger at 1 and run with the
\* trigger at 2^20 ends the same way, prints the same values and ends with
\* the same variable bindings; and so does, from any point of a run, the
\* rest of the run with a collection at that point and without one: when
\* the collection happens is not observable.  (A step of the run loop is
\* a step of run, so the runs compared are runs of the VM.)
C12_TriggerNotObservable ==
    [][/\ RunStarts =>
            LET early == run(Current, 0, 1)
                late == run(Current, 0, 2 ^ 20)
            IN (early.status # "run" /\ late.status # "run") =>
                   Outcome(early) = Outcome(late)
       /\ status = "run" =>
            LET now == run(Current, iteration, iteration)
                never == run(Current, iteration, 2 ^ 20)
            IN (now.status # "run" /\ never.status # "run") =>
                   Outcome(now) = Outcome(never)
       /\ (status = "run" /\ pc >= 0 /\ pc < Len(instructions)) =>
            LET r == run_byte(Entry, CurInstr)
            IN /\ status' = r.status
               /\ stack' = r.stack
               /\ variables' = r.variables
               /\ call_stack' = r.call_stack
               /\ memory' = r.memory
               /\ output' = r.output
               /\ stdin' = r.stdin
               /\ diagnostic' = r.diagnostic
               /\ r.status = "run" => pc' = r.pc]_vars

\* a run holds garbage that a collection now would drop while a variable
\* is bound, and from here it ends at Halt, having printed, whether or not
\* the collection happens
C12_GarbageMidRun ==
    /\ status = "run"
    /\ iteration > 0
    /\ BoundPtrs(variables) # {}
    /\ DOMAIN gc_recollect(memory, stack, variables).cells # DOMAIN memory.cells
    /\ run(Current, iteration, iteration).status = "halted"
    /\ run(Current, iteration, 2 ^ 20).status = "halted"
    /\ run(Current, iteration, iteration).output # output

\* C13: the iteration counter grows by one with every dispatched
\* instruction but Halt; at the dispatch where it equals GC_TRIGGER a
\* collection runs (what was unmarked and unreachable is gone afterwards),
\* at no other dispatch but Halt is an entry dropped, and dispatching Halt
\* always collects before run returns (only what the roots point to stays).
C13_CollectionTimes ==
    [][(status = "run" /\ pc >= 0 /\ pc < Len(instructions)) =>
          LET garbage == {p \in DOMAIN memory.cells :
                             p \notin Roots /\ ~memory.cells[p].mark}
          IN /\ (CurInstr.op # "Halt" /\ status' = "run") => iteration' = iteration + 1
             /\ iteration = GC_TRIGGER => \A p \in garbage : ~Registered(memory', p)
             /\ (iteration # GC_TRIGGER /\ CurInstr.op # "Halt") =>
                    DOMAIN memory.cells \subseteq DOMAIN memory'.cells
             /\ CurInstr.op = "Halt" =>
                    /\ status' = "halted"
                    /\ stack' = stack
                    /\ variables' = variables
                    /\ DOMAIN memory'.cells = Roots]_vars

\* the dispatch at iteration GC_TRIGGER has just dropped entries
C13_TriggerCollected ==
    /\ status = "run"
    /\ iteration = GC_TRIGGER + 1
    /\ Cardinality(DOMAIN memory.cells) < memory.next - 1

-----------------------------------------------------------------------------
(* Properties of control flow. *)

\* C14: a While instruction pops the condition; when it is truthy the
\* body starts at the next instruction, when it is falsy execution goes
\* on right after the loop's back-jump; and the back-jump returns to the
\* loop start, where the condition is evaluated again, wherever the loop
\* is, a loop starting at instruction 0 included.
C14_WhileLoop ==
    [][/\ (AtOp("While") /\ stack # <<>>) =>
            /\ status' = "run"
            /\ stack' = Pop(stack)
            /\ IF bool_eval(Deref(memory, Top(stack)))
               THEN pc' = pc + 1
               ELSE /\ pc' = CurInstr.args[1]
                    /\ instructions[pc'].op = "Jmp"
                    /\ instructions[pc'].args[1] <= pc
       /\ (AtOp("Jmp") /\ CurInstr.args[1] <= pc) =>
            /\ status' = "run"
            /\ pc' = CurInstr.args[1]
            /\ stack' = stack]_vars

\* C15: TernaryStart pops the condition once; a truthy condition runs
\* the then-block, whose closing Jmp skips the else-block; a falsy one
\* continues at the else-block (possibly empty) and never enters the
\* then-block; either way execution goes on at the first instruction
\* after the else-block.
C15_TernaryOneBlock ==
    [][/\ (AtOp("TernaryStart") /\ stack # <<>>) =>
            LET else_start == CurInstr.args[1]
                jump == instructions[else_start]
            IN /\ status' = "run"
               /\ stack' = Pop(stack)
               /\ jump.op = "Jmp"
               /\ jump.args[1] >= else_start
               /\ pc' = IF bool_eval(Deref(memory, Top(stack))) THEN pc + 1
                        ELSE else_start
       /\ (AtOp("Jmp") /\ CurInstr.args[1] > pc) =>
            /\ status' = "run"
            /\ pc' = CurInstr.args[1]
            /\ stack' = stack
       /\ (exprs = ProgTernary /\ status' = "halted") =>
            output' = <<"1\n", "4\n", "6\n">>]_vars

\* the four ternaries have run: a truthy and a falsy condition, each with
\* and without an else-block
C15_TernariesRan ==
    /\ exprs = ProgTernary
    /\ status = "halted"
    /\ output = <<"1\n", "4\n", "6\n">>

-----------------------------------------------------------------------------
(* Properties of the runtime errors. *)

\* C16: a Div whose right operand is Int 0 or Float 0.0 ends in the
\* reported runtime error "Cannot divide by zero, a / b = undefined" and
\* pushes no result, whether the Div comes from a Binary expression or
\* from a divide-assign.
C16_DivByZero ==
    [][(AtOp("Div") /\ Len(stack) >= 2
        /\ Deref(memory, Top(stack)) \in {IntV(0), FloatV(0)}) =>
          /\ status' = "error"
          /\ diagnostic' = "Cannot divide by zero, "
                 \o Display(Deref(memory, stack[Len(stack) - 1])) \o " / "
                 \o Display(Deref(memory, Top(stack))) \o " = undefined"
          /\ Len(stack') < Len(stack)
          /\ memory'.next = memory.next
          /\ output' = output]_vars

\* y /= 0.0 has ended in the division error
C16_DivAssignFailed ==
    /\ exprs = ProgDivAssignFloatZero
    /\ status = "error"
    /\ CurInstr.op = "Div"
    /\ instructions[pc + 2].op = "Replace"
    /\ Deref(memory, variables[1][0]) = IntV(6)

\* C17: Index pops the index and the array; with 0 <= index < length it
\* pushes a copy of array[index] and goes on; with an index below 0 or at
\* or above the length it ends in a reported runtime error, and in no
\* other kind of fault.
C17_IndexBounds ==
    [][(AtOp("Index") /\ Len(stack) >= 2
        /\ Deref(memory, Top(stack)).t = "int"
        /\ Deref(memory, stack[Len(stack) - 1]).t = "array") =>
          LET index == Deref(memory, Top(stack)).i
              array == Deref(memory, stack[Len(stack) - 1]).a
          IN IF 0 <= index /\ index < Len(array)
             THEN /\ status' = "run"
                  /\ Len(stack') = Len(stack) - 1
                  /\ SubSeq(stack', 1, Len(stack) - 2) = SubSeq(stack, 1, Len(stack) - 2)
                  /\ Top(stack') \notin DOMAIN memory.cells
                  /\ Deref(memory', Top(stack')) = array[index + 1]
             ELSE status' = "error"]_vars

-----------------------------------------------------------------------------
(* Properties of the built-in calls. *)

\* VM::new: the compiler state before the first expression
NewVM ==
    [instructions |-> <<>>, constants |-> <<>>, variables_id |-> EmptyMap,
     var_id_count |-> 0, variables |-> <<EmptyMap>>, functions |-> EmptyMap,
     stack |-> <<>>, memory |-> [cells |-> EmptyMap, next |-> 1],
     status |-> "compile"]

\* the top-level expressions that call a built-in without an argument
BareCalls ==
    {k \in 1..Len(exprs) :
        exprs[k].k = "Call" /\ exprs[k].name \in Builtins /\ exprs[k].args = <<>>}

\* the positions of the instructions compiled for them: the last
\* instruction emitted for the program up to and including the call
BareSites == {Len(CompileAll(NewVM, SubSeq(exprs, 1, k)).instructions) - 1 : k \in BareCalls}

\* C18: when the instruction of a built-in call written without an
\* argument is dispatched, the value it is about to pop is Nil, whatever
\* was evaluated before.
C18_BareBuiltinPopsNil ==
    (/\ status = "run"
     /\ pc >= 0
     /\ pc < Len(instructions)
     /\ CurInstr.op \in {BuiltinOpcode(f) : f \in Builtins}
     /\ pc \in BareSites) =>
        /\ stack # <<>>
        /\ Deref(memory, Top(stack)) = Nil

-----------------------------------------------------------------------------
(* Properties of function aliases and unknown functions. *)

\* C19: compiling Set(g, Ident(f)), f a registered function, emits no
\* instruction and registers g with the FunctionData of f (parameters,
\* instruction range, scope index, returns flag), nothing else changing;
\* a later call of g then enters the body of f with f's parameters bound
\* to the arguments, and the program prints what the call of f would.
C19_FunctionAlias ==
    [][/\ (/\ Compiling({"Set"})
           /\ CurExpr.value.k = "Ident"
           /\ CurExpr.value.name \in DOMAIN functions) =>
            /\ status' = "compile"
            /\ instructions' = instructions
            /\ constants' = constants
            /\ variables_id' = variables_id
            /\ var_id_count' = var_id_count
            /\ DOMAIN functions' = DOMAIN functions \cup {CurExpr.name}
            /\ functions'[CurExpr.name] = functions[CurExpr.value.name]
            /\ \A h \in DOMAIN functions \ {CurExpr.name} : functions'[h] = functions[h]
       /\ (exprs = ProgAlias /\ CallFound /\ PoppedName(Entry).s = "g") =>
            /\ status' = "run"
            /\ pc' = functions["f"].instruction_range.start
            /\ Deref(memory', variables'[functions["f"].scope_idx + 1]
                                        [functions["f"].parameters[1].id]) = IntV(1)
       /\ (exprs = ProgAlias /\ status' = "halted") => output' = <<"2\n">>]_vars

\* g = f has been compiled and g(1) has run the body of f
C19_AliasCalled ==
    /\ exprs = ProgAlias
    /\ status = "halted"
    /\ output = <<"2\n">>
    /\ "g" \in DOMAIN functions
    /\ functions["g"] = functions["f"]
    /\ "g" \notin DOMAIN variables_id

\* C20: a FnCall on a name that is not in the function table ends in the
\* reported runtime error "Function ... not found": no frame is pushed,
\* no slot of any scope is written, and pc enters no function body.
C20_UnknownFunction ==
    [][(/\ AtOp("FnCall")
        /\ PoppedName(Entry).t = "str"
        /\ PoppedName(Entry).s \notin DOMAIN functions) =>
          /\ status' = "error"
          /\ diagnostic' = "Function " \o PoppedName(Entry).s \o " not found"
          /\ call_stack' = call_stack
          /\ variables' = variables
          /\ pc' = pc
          /\ ~InBody(pc')]_vars

\* nope(1) has ended in the error
C20_CallFailed ==
    /\ exprs = ProgUnknownCall
    /\ status = "error"
    /\ CurInstr.op = "FnCall"
    /\ diagnostic = "Function nope not found"
    /\ call_stack = <<>>

\* C21: once a runtime error has been reported execution is over: every
\* step of the VM starts in a state where no error has been reported, so
\* after the report no instruction is dispatched and pc, the operand
\* stack, the scopes, the call stack and the output keep their values.
C21_ErrorIsFinal ==
    [][/\ diagnostic = ""
       /\ status \in {"compile", "run", "unit"}
       /\ (diagnostic' # "" /\ status' = "error") =>
            /\ pc' = pc
            /\ iteration' = iteration]_vars

\* a running program has ended in a reported error with values still on
\* the operand stack or output already produced
C21_StoppedMidRun ==
    /\ status = "error"
    /\ diagnostic # ""
    /\ instructions # <<>>
    /\ pc < Len(instructions) - 1
    /\ \/ output # <<>>
       \/ stack # <<>>

\* the names a program may refer to
Names == {"x", "y", "f", "g", "a"}

\* the assignment operators of an EqStmt
EqOps == {"AddEq", "SubEq", "MulEq", "DivEq"}

\* C22: compiling an Ident, or an EqStmt whose target is, a name without a
\* slot id reports "Variable not found" and is fatal: in every state of
\* the compiler compile_expr of such a reference emits nothing, and the
\* step of compile() that meets one ends the program before any
\* instruction has run, with no Halt pushed.
C22_UnboundNameIsFatal ==
    [][/\ (status = "compile") =>
            \A n \in Names \ DOMAIN variables_id :
                /\ compile_expr(CState, EIdent(n)).status = "error"
                /\ compile_expr(CState, EIdent(n)).instructions = instructions
                /\ \A o \in EqOps :
                     LET c == compile_expr(CState, EEqStmt(n, o, EInt(2)))
                     IN c.status = "error" /\ c.instructions = instructions
       /\ (/\ Compiling({"Ident", "EqStmt"})
           /\ CurExpr.name \notin DOMAIN variables_id) =>
            /\ status' = "error"
            /\ diagnostic' = "Variable not found"
            /\ Emitted = <<>>
       /\ (status = "compile" /\ status' = "error") =>
            /\ diagnostic' = "Variable not found"
            /\ HaltCount(instructions') = 0
            /\ pc' = 0
            /\ iteration' = 0
            /\ output' = <<>>
       /\ (status' = "run") => diagnostic' = ""]_vars

\* y += 2 with no y has stopped the compiler
C22_EqStmtRejected ==
    /\ exprs = ProgUnboundEqStmt
    /\ status = "error"
    /\ diagnostic = "Variable not found"
    /\ expr_idx = 2
    /\ Len(instructions) = 3
    /\ pc = 0

\* C23: a literal is compiled to one LoadConst carrying the index at which
\* the literal was appended to the constant pool; every LoadConst that is
\* dispatched carries a valid index k, and dispatching it leaves the stack
\* one deeper, the values below untouched, with a pointer that was not
\* allocated before on top, holding constants[k]; test_run_byte_load_const
\* ends with the one value Int 5 on the stack.
C23_LoadConstPushesCopy ==
    [][/\ Compiling(Literals) =>
            /\ constants' = Append(constants, CurExpr.val)
            /\ Emitted = << Instr("LoadConst", <<Len(constants)>>) >>
            /\ constants'[Emitted[1].args[1] + 1] = CurExpr.val
       /\ AtOp("LoadConst") =>
            /\ CurInstr.args[1] >= 0
            /\ CurInstr.args[1] < Len(constants)
            /\ status' = "run"
            /\ pc' = pc + 1
            /\ Len(stack') = Len(stack) + 1
            /\ SubSeq(stack', 1, Len(stack)) = stack
            /\ Top(stack') \notin DOMAIN memory.cells
            /\ Top(stack') \notin BoundPtrs(variables)
            /\ \A i \in 1..Len(stack) : stack[i] # Top(stack')
            /\ Deref(memory', Top(stack')) = constants[CurInstr.args[1] + 1]
       /\ (status = "unit" /\ functions = EmptyMap) =>
            /\ status' = "tested"
            /\ Len(stack') = 1
            /\ Deref(memory', stack'[1]) = IntV(5)]_vars

\* the second literal of a program has just been loaded above the first
C23_LiteralLoaded ==
    /\ exprs = ProgLiterals
    /\ status = "run"
    /\ pc = 2
    /\ instructions[pc].op = "LoadConst"
    /\ Len(stack) = 2
    /\ stack[1] # stack[2]
    /\ Deref(memory, Top(stack)) = constants[instructions[pc].args[1] + 1]
    /\ Deref(memory, Top(stack)) = exprs[2].val

\* C24: Inc (Dec) pops the variable-name string and pushes nothing, the
\* scopes keep their pointers, and the value of the named variable becomes
\* the old value plus (minus) 1 for Int and Float and the negated value for
\* Bool; for any other type the step ends in a reported runtime error and
\* the value is unchanged.
C24_IncDecInPlace ==
    [][(/\ AtOp("Inc") \/ AtOp("Dec")
        /\ stack # <<>>
        /\ PoppedName(Entry).t = "str"
        /\ PoppedName(Entry).s \in DOMAIN variables_id) =>
          LET delta == IF CurInstr.op = "Inc" THEN 1 ELSE -1
              v == get_var(variables, variables_id[PoppedName(Entry).s])
              old == Deref(memory, v.ptr)
          IN /\ v.res = "Some"
             /\ status' \in {"run", "error"}
             /\ stack' = Pop(stack)
             /\ variables' = variables
             /\ (old.t \in {"int", "float"}) =>
                    /\ status' = "run"
                    /\ Deref(memory', v.ptr) = [old EXCEPT !.i = @ + delta]
             /\ (old.t = "bool") =>
                    /\ status' = "run"
                    /\ Deref(memory', v.ptr) = BoolV(old.i = 0)
             /\ (old.t \notin {"int", "float", "bool"}) =>
                    /\ status' = "error"
                    /\ Deref(memory', v.ptr) = old]_vars

\* C25: Binary(a, op, b) is compiled to the instructions of a, then those
\* of b, then the one instruction of op (for literal operands two
\* LoadConst of consecutive pool indices and the opcode); at run time the
\* opcode pops two values and pushes one fresh value, the values below
\* untouched, computed with the value pushed first as the left operand:
\* Sub gives a - b, Lt gives a < b, Add of a string and a number gives the
\* string followed by the number.
C25_BinaryLowering ==
    [][/\ (Compiling({"Binary"}) /\ status' = "compile") =>
            LET ca == compile_expr(CState, CurExpr.lhs)
                cb == compile_expr(ca, CurExpr.rhs)
            IN /\ instructions' =
                    Append(cb.instructions, Instr(BinaryOpcode(CurExpr.op), <<>>))
               /\ SubSeq(cb.instructions, 1, Len(ca.instructions)) = ca.instructions
               /\ SubSeq(ca.instructions, 1, Len(instructions)) = instructions
       /\ (/\ Compiling({"Binary"})
           /\ CurExpr.lhs.k \in Literals
           /\ CurExpr.rhs.k \in Literals) =>
            /\ constants' = constants \o << CurExpr.lhs.val, CurExpr.rhs.val >>
            /\ Emitted = << Instr("LoadConst", <<Len(constants)>>),
                            Instr("LoadConst", <<Len(constants) + 1>>),
                            Instr(BinaryOpcode(CurExpr.op), <<>>) >>
       /\ (/\ status = "run" /\ pc >= 0 /\ pc < Len(instructions)
           /\ CurInstr.op \in ArithmeticOps \cup CompareOps
           /\ Len(stack) >= 2
           /\ status' = "run") =>
            LET a == Deref(memory, stack[Len(stack) - 1])
                b == Deref(memory, stack[Len(stack)])
                res == Deref(memory', Top(stack'))
            IN /\ Len(stack') = Len(stack) - 1
               /\ SubSeq(stack', 1, Len(stack) - 2) = SubSeq(stack, 1, Len(stack) - 2)
               /\ Top(stack') \notin DOMAIN memory.cells
               /\ (CurInstr.op = "Sub" /\ a.t = "int" /\ b.t = "int") =>
                      res = IntV(a.i - b.i)
               /\ (CurInstr.op = "Lt" /\ a.t = "int" /\ b.t = "int") =>
                      res = BoolV(a.i < b.i)
               /\ (CurInstr.op = "Add" /\ a.t = "str" /\ b.t = "int") =>
                      res = StrV(a.s \o Display(b))
       /\ (exprs = ProgBinary /\ status' = "halted") => output' = <<"5\n">>]_vars

\* 5 - 3 has left the one value 2 on the operand stack
C25_Subtracted ==
    /\ exprs = ProgBinary
    /\ status = "run"
    /\ pc = 3
    /\ instructions[pc].op = "Sub"
    /\ Len(stack) = 1
    /\ Deref(memory, Top(stack)) = IntV(2)

\* the instructions of a sequence of literals compiled from pool length n
LiteralLoads(as, n) == [i \in 1..Len(as) |-> Instr("LoadConst", <<n + i - 1>>)]

\* the values of a sequence of literals
LiteralValues(as) == [i \in 1..Len(as) |-> as[i].val]

\* compile_expr applied to the first n of es in order
RECURSIVE CompiledPrefix(_, _, _)
CompiledPrefix(c, es, n) ==
    IF n = 0 THEN c ELSE compile_expr(CompiledPrefix(c, es, n - 1), es[n])

\* C26: a call of a name that is not one of the seven built-ins is compiled
\* to the instructions of its arguments, first argument first, then one
\* LoadConst of the callee name, then one FnCall and nothing else; with n
\* literal arguments that is n + 2 instructions, the n LoadConst of the
\* arguments in order, the LoadConst of the name and FnCall last.
C26_CallLowering ==
    [][/\ Cardinality(Builtins) = 7
       /\ (/\ Compiling({"Call"})
           /\ CurExpr.name \notin Builtins
           /\ status' = "compile") =>
            LET n == Len(CurExpr.args)
                ca == CompiledPrefix(CState, CurExpr.args, n)
            IN /\ \A i \in 1..n :
                    LET before == CompiledPrefix(CState, CurExpr.args, i - 1)
                        after == CompiledPrefix(CState, CurExpr.args, i)
                    IN /\ Len(after.instructions) > Len(before.instructions)
                       /\ SubSeq(instructions', 1, Len(after.instructions))
                            = after.instructions
                       /\ SubSeq(after.instructions, 1, Len(before.instructions))
                            = before.instructions
               /\ Len(instructions') = Len(ca.instructions) + 2
               /\ constants' = Append(ca.constants, StrV(CurExpr.name))
               /\ instructions'[Len(instructions') - 1] =
                    Instr("LoadConst", <<Len(constants') - 1>>)
               /\ instructions'[Len(instructions')] = Instr("FnCall", <<>>)
       /\ (/\ Compiling({"Call"})
           /\ CurExpr.name \notin Builtins
           /\ \A i \in 1..Len(CurExpr.args) : CurExpr.args[i].k \in Literals) =>
            /\ status' = "compile"
            /\ Len(Emitted) = Len(CurExpr.args) + 2
            /\ constants' = constants \o LiteralValues(CurExpr.args)
                              \o << StrV(CurExpr.name) >>
            /\ Emitted = LiteralLoads(CurExpr.args, Len(constants))
                           \o << Instr("LoadConst", <<Len(constants) + Len(CurExpr.args)>>),
                                 Instr("FnCall", <<>>) >>]_vars

\* k(5, 3) has been compiled to four instructions
C26_TwoArgumentCall ==
    /\ exprs = ProgCalls
    /\ status = "compile"
    /\ expr_idx = 2
    /\ Len(instructions) >= 4
    /\ instructions[Len(instructions)].op = "FnCall"
    /\ constants[instructions[Len(instructions) - 1].args[1] + 1] = StrV("k")
    /\ constants[instructions[Len(instructions) - 2].args[1] + 1] = IntV(3)
    /\ constants[instructions[Len(instructions) - 3].args[1] + 1] = IntV(5)

\* C27: test_run_byte_fn_call: on a fresh VM with the constant Int 5 and
\* the function f (one parameter, returns = true, range 0..0) registered,
\* dispatching one FnCall completes without a fault and leaves exactly one
\* value, equal to the constant, on the operand stack.
C27_FnCallTestPasses ==
    [][(status = "unit" /\ "f" \in DOMAIN functions) =>
          /\ status' = "tested"
          /\ Len(stack') = 1
          /\ Deref(memory', stack'[1]) = constants[1]]_vars

\* the values the specification calls false
Falsy == {Nil, BoolV(FALSE), IntV(0), FloatV(0), StrV("")}

\* C28: TernaryStart and While fall through to the next instruction when
\* the popped condition is none of Nil, Bool(false), Int 0, Float 0.0 and
\* the empty string, and go to their target when it is one of them; And
\* and Or give what they give on the two operands' truthiness as Bools.
\* The empty array counts as true.
C28_Truthiness ==
    [][/\ (/\ AtOp("TernaryStart") \/ AtOp("While")
           /\ stack # <<>>
           /\ status' = "run") =>
            LET cond == Deref(memory, Top(stack))
            IN /\ stack' = Pop(stack)
               /\ (cond \notin Falsy) => pc' = pc + 1
               /\ (cond \in Falsy) => pc' = CurInstr.args[1]
               /\ (cond = ArrayV(<<>>)) => pc' = pc + 1
       /\ (/\ AtOp("And") \/ AtOp("Or")
           /\ Len(stack) >= 2) =>
            LET a == Deref(memory, stack[Len(stack) - 1])
                b == Deref(memory, stack[Len(stack)])
                ta == BoolV(a \notin Falsy)
                tb == BoolV(b \notin Falsy)
            IN /\ status' = "run"
               /\ Deref(memory', Top(stack')) =
                    IF CurInstr.op = "And" THEN BoolV(ta.i = tb.i)
                    ELSE BoolV(ta.i = 1 \/ tb.i = 1)
       /\ (exprs = ProgTruthiness /\ Len(output') >= Len(TruthOperands)) =>
            SubSeq(output', 1, Len(TruthOperands))
              = <<"f", "f", "f", "f", "f", "t", "t", "t", "t", "t">>]_vars

\* every condition has been tried and the loop on the empty array is
\* running
C28_EmptyArrayLoops ==
    /\ exprs = ProgTruthiness
    /\ status = "run"
    /\ Len(output) = Len(TruthOperands) + 2
    /\ output[Len(output)] = "w"

\* C29: whenever run() is about to dispatch, and so in every state in
\* which the VM is running, pc is an index into the instruction vector:
\* 0 <= pc < Len(instructions); every jump, Function skip, FnCall and Ret
\* that leaves the VM running leaves pc such an index.
C29_PcValid ==
    (status = "run") => (pc >= 0 /\ pc < Len(instructions))

\* a call has returned: the VM is running just after a FnCall with the
\* frame popped, and the Function skip that preceded it took pc forward
C29_BackFromCall ==
    /\ status = "run"
    /\ pc >= 1
    /\ instructions[pc].op = "FnCall"
    /\ call_stack = <<>>
    /\ iteration > pc
    /\ \E i \in 1..pc : instructions[i].op = "Function"

\* C30: a taken jump to a target t inside the instruction vector (Jmp t,
\* or While t / TernaryStart t on a false condition) never faults in the
\* computation of t - 1 and makes instruction t the next one dispatched,
\* also when t = 0.
C30_JumpLandsOnTarget ==
    [][(/\ \/ AtOp("Jmp")
           \/ /\ AtOp("While") \/ AtOp("TernaryStart")
              /\ stack # <<>>
              /\ ~bool_eval(Deref(memory, Top(stack)))
        /\ CurInstr.args[1] >= 0
        /\ CurInstr.args[1] < Len(instructions)) =>
          /\ status' = "run"
          /\ pc' = CurInstr.args[1]]_vars

\* instruction range a contains instruction range b
RangeContains(a, b) == a.start <= b.start /\ b.end <= a.end

\* C31: once compilation has finished, the instruction range of every
\* registered function lies within the instruction vector and contains
\* the range of no other function, also when a function is defined inside
\* the body of another.
C31_FunctionRanges ==
    (exprs # <<>> /\ status # "compile" /\ HaltCount(instructions) = 1) =>
        \A f \in DOMAIN functions :
            /\ functions[f].instruction_range.start >= 0
            /\ functions[f].instruction_range.start <= functions[f].instruction_range.end
            /\ functions[f].instruction_range.end <= Len(instructions)
            /\ \A g \in DOMAIN functions :
                 (functions[g] # functions[f]) =>
                    ~RangeContains(functions[f].instruction_range,
                                   functions[g].instruction_range)

\* C32: slot ids are unique: no two distinct names are recorded in
\* variables_id with the same slot id, and the Replace that ends the
\* instructions of a Set introducing a new name carries the slot id
\* recorded for that name, also when the value expression introduces
\* variables of its own.
C32_SlotIdsUnique ==
    [][/\ \A n, m \in DOMAIN variables_id' :
            (n # m) => variables_id'[n] # variables_id'[m]
       /\ (/\ Compiling({"Set"})
           /\ CurExpr.value.k # "Ident"
           /\ CurExpr.name \notin DOMAIN variables_id
           /\ status' = "compile") =>
            /\ CurExpr.name \in DOMAIN variables_id'
            /\ Emitted[Len(Emitted)] = Instr("Replace", <<variables_id'[CurExpr.name]>>)]_vars

\* C33: on every call of a function, a GetVar of one of its parameters at
\* the start of the body, before the body has assigned to it, pushes the
\* argument the call has just bound in the function's scope; so the two
\* calls f(1) and f(2) of a body that prints x and then assigns x print 1
\* and 2.
C33_ParamReadPerCall ==
    [][/\ \A f \in DOMAIN functions :
            (/\ AtOp("GetVar")
             /\ call_stack # <<>>
             /\ pc = functions[f].instruction_range.start
             /\ \E i \in 1..Len(functions[f].parameters) :
                    functions[f].parameters[i].id = CurInstr.args[1]) =>
               /\ status' = "run"
               /\ Deref(memory', Top(stack')) =
                    Deref(memory, variables[functions[f].scope_idx + 1][CurInstr.args[1]])
       /\ (exprs = ProgParamReassigned /\ status' = "halted") =>
            output' = <<"1\n", "2\n">>]_vars

\* the functions whose body is the innermost one around position p
Enclosing(p) ==
    {f \in DOMAIN functions :
        /\ functions[f].instruction_range.start <= p
        /\ p < functions[f].instruction_range.end
        /\ \A g \in DOMAIN functions :
             (/\ functions[g].instruction_range.start <= p
              /\ p < functions[g].instruction_range.end) =>
                functions[g].instruction_range.start <= functions[f].instruction_range.start}

\* C34: a call made from inside a function body leaves the parameters of
\* the calling activation as they were: the FnCall writes none of the
\* caller's parameter slots, so that after the nested call has returned
\* the caller reads the values it had before, also when the call is a
\* recursive one; f(1) of a body that calls f(n - 1) and then prints n
\* prints 0 and then 1.
C34_NestedCallKeepsParams ==
    [][/\ (/\ AtOp("FnCall")
           /\ call_stack # <<>>
           /\ status' = "run") =>
            \A f \in Enclosing(pc) :
                \A i \in 1..Len(functions[f].parameters) :
                    variables'[functions[f].scope_idx + 1][functions[f].parameters[i].id]
                      = variables[functions[f].scope_idx + 1][functions[f].parameters[i].id]
       /\ (exprs = ProgRecursive /\ status' = "halted") =>
            output' = <<"0\n", "1\n">>]_vars

\* the names in a sequence of parameter names
ParamNames(ps) == {ps[i] : i \in 1..Len(ps)}

\* C35: compiling a function definition leaves name resolution outside
\* the body as it was: every name bound before the definition keeps its
\* slot id, and a parameter name that was unbound before it is unbound
\* after it, so that a later reference to it is a compile-time error.
C35_DefinitionKeepsNames ==
    [][(/\ Compiling({"MultilineFunction", "InlineFunction"})
        /\ status' = "compile") =>
          /\ \A n \in DOMAIN variables_id :
                n \in DOMAIN variables_id' /\ variables_id'[n] = variables_id[n]
          /\ \A n \in ParamNames(CurExpr.params) \ DOMAIN variables_id :
                /\ n \notin DOMAIN variables_id'
                /\ compile_expr(CState', EIdent(n)).status = "error"]_vars

\* C36: Inc or Dec changes only the variable it names: every slot of every
\* scope that is bound under another slot id holds the same value after
\* the step as before it, so a caller's variable passed as the argument
\* of a call whose body increments the parameter keeps its value; x = 1,
\* f(x) with f p = { p++ }, $(x) prints 1.
C36_IncChangesOnlyParam ==
    [][/\ (/\ AtOp("Inc") \/ AtOp("Dec")
           /\ stack # <<>>
           /\ PoppedName(Entry).t = "str"
           /\ PoppedName(Entry).s \in DOMAIN variables_id
           /\ status' = "run") =>
            \A sc \in 1..Len(variables) :
                \A id \in DOMAIN variables[sc] :
                    (id # variables_id[PoppedName(Entry).s] /\ variables[sc][id] # NoPtr) =>
                        Deref(memory', variables'[sc][id]) = Deref(memory, variables[sc][id])
       /\ (exprs = ProgIncParam /\ status' = "halted") => output' = <<"1\n">>]_vars

\* the constant pool as compile() leaves it for the program
CompiledConstants == CompileAll(NewVM, exprs).constants

\* C37: execution never changes the constant pool: in every step of a run
\* the pool is the one compilation left and stays so, and every LoadConst
\* pushes the value its constant had when compilation finished, also after
\* an Inc on a variable initialised from that literal and in a loop that
\* runs the same LoadConst again; k = 5; k++; $(k) in a loop of two turns
\* prints 6 twice.
C37_PoolUnchanged ==
    [][/\ (status = "run") =>
            /\ constants = CompiledConstants
            /\ constants' = constants
       /\ (AtOp("LoadConst") /\ status' = "run") =>
            Deref(memory', Top(stack')) = CompiledConstants[CurInstr.args[1] + 1]
       /\ (exprs = ProgConstLoop /\ status' = "halted") =>
            output' = <<"6\n", "6\n">>]_vars

\* the loop has loaded and incremented the literal 5 twice
C37_LoopReloaded ==
    /\ exprs = ProgConstLoop
    /\ status = "halted"
    /\ output = <<"6\n", "6\n">>
    /\ constants = CompiledConstants
    /\ \E k \in 1..Len(constants) : constants[k] = IntV(5)

\* C38: in one run the trigger collection happens at most once before
\* Halt: the iteration counter never decreases and grows by one with every
\* dispatch that leaves the VM running, so the dispatch at which it equals
\* GC_TRIGGER is followed only by dispatches at which it is greater, and
\* at none of those, until Halt, is a heap entry dropped.
C38_TriggerFiresOnce ==
    [][/\ iteration' >= iteration
       /\ (status = "run" /\ status' = "run") => iteration' = iteration + 1
       /\ (status = "run" /\ iteration = GC_TRIGGER /\ status' = "run") =>
            iteration' = GC_TRIGGER + 1
       /\ (iteration > GC_TRIGGER) =>
            /\ iteration' > GC_TRIGGER
            /\ (AtOp("Halt") \/ DOMAIN memory.cells \subseteq DOMAIN memory'.cells)]_vars

\* a run has gone on for more than twice the trigger and holds entries
\* that no root points to
C38_GarbageAfterTrigger ==
    /\ status = "run"
    /\ iteration > 2 * GC_TRIGGER
    /\ \E p \in DOMAIN memory.cells : p \notin Roots

\* C39: whenever the next instruction to dispatch is Ret the call stack is
\* not empty, so no Ret pops an empty call stack, also for a Return
\* outside any function body.
C39_RetHasFrame == AtOp("Ret") => call_stack # <<>>

\* C40: the MakeVar of a new variable inserts, as unbound, the slot of the
\* variable being declared, the one the Replace of the same Set writes
\* (read here where the initialiser is a single constant load, so that
\* the Replace is the second instruction after the MakeVar).
C40_MakeVarDeclaresSlot ==
    [][(/\ AtOp("MakeVar")
        /\ pc + 3 <= Len(instructions)
        /\ instructions[pc + 2].op = "LoadConst"
        /\ instructions[pc + 3].op = "Replace"
        /\ status' = "run") =>
         LET id == instructions[pc + 3].args[1]
             scope == variables'[Len(variables')]
         IN /\ id \in DOMAIN scope
            /\ scope[id] = NoPtr]_vars

====
